---- MODULE Spec2Model ----
(***************************************************************************)
(* A model of the deployment-verification scripts of the repository:       *)
(*   scripts/health-check.py       the retry driver of the comprehensive   *)
(*                                 (multi-service) health check, and       *)
(*                                 ServiceHealthChecker,                   *)
(*   scripts/verify-backend.py     BackendHealthChecker and its CLI,       *)
(*   scripts/verify-frontend.py    FrontendHealthChecker and its CLI,      *)
(*   scripts/deployment-status.py  DeploymentStatusReporter.               *)
(*                                                                         *)
(* Spec: one process runs one of the three checking scripts (variable      *)
(* cli).  Its program counter pc walks through the script; the remote      *)
(* services are the environment: every HTTP request is answered by a       *)
(* response, or raises an exception, drawn from a small set.  argparse     *)
(* itself is outside the model: a run starts from the parsed arguments,    *)
(* with a retry count and a retry delay that are not negative.             *)
(*                                                                         *)
(* CheckerSpec: one invocation of run_comprehensive_health_check of        *)
(* ServiceHealthChecker, which Spec keeps as the schedule of its verdicts. *)
(*                                                                         *)
(* ReporterSpec: one DeploymentStatusReporter and the operations called    *)
(* on it, in any order.                                                    *)
(*                                                                         *)
(* CliSpec: the invocations of scripts/deployment-status.py on one file,   *)
(* each a process of its own that loads the file, acts and saves.          *)
(***************************************************************************)
EXTENDS Integers, Sequences, FiniteSets, TLC

VARIABLES
    cli,          \* the script this process runs
    pc,           \* the position of the process in the script
    exit_code,    \* the process exit status; -1 while the process runs
    urls_given,   \* health-check.py: both service URLs are configured
    retry,        \* health-check.py: args.retry
    schedule,     \* health-check.py: what the i-th comprehensive check returns
    attempt,      \* health-check.py: the loop variable of the retry loop
    trace,        \* health-check.py: the checks and sleeps performed, in order
    include_crud, \* verify-backend.py: args.include_crud
    backend_url,  \* verify-frontend.py: args.backend_url is given
    tests,        \* the list `tests` of the running comprehensive check
    probe,        \* the dict the probe that ran last returned
    http_log,     \* the HTTP requests the probe that ran last issued
    raised,       \* an exception left the probe that ran last
    fault,        \* the classes of the exception its first request raised
    page,         \* verify-frontend.py: the front page the last probe fetched
    results,      \* the dict the comprehensive check returned
    services,     \* health-check.py: the service results gathered, in order
    deployment_log, \* deployment-status.py: reporter.deployment_log
    now,          \* deployment-status.py: the clock, in ticks since construction
    summary,      \* deployment-status.py: the summary returned last
    previous,     \* deployment-status.py: the summary returned before that
    report,       \* deployment-status.py: the Markdown report returned last
    written,      \* deployment-status.py: the report the last operation wrote
    file,         \* deployment-status.py: the file of --load-log and --output-file
    op            \* deployment-status.py: the operation that ran last

\* the state of a ServiceHealthChecker run beyond pc, http_log and results
checker_vars == <<services>>

\* the state of a DeploymentStatusReporter
reporter_vars ==
    <<deployment_log, now, summary, previous, report, written, file, op>>

\* the arguments and the progress of the retry driver
driver_vars == <<cli, exit_code, urls_given, retry, schedule, attempt, trace>>

\* the state of a probe suite of verify-backend.py or verify-frontend.py
suite_vars == <<include_crud, backend_url, tests, probe, raised, fault, page>>

vars == <<cli, pc, exit_code, urls_given, retry, schedule, attempt, trace,
          include_crud, backend_url, tests, probe, http_log, raised, fault,
          page, results, checker_vars, reporter_vars>>

-----------------------------------------------------------------------------
(* Bounds of the model. *)

\* the largest --retry value explored; the values are 0..MaxRetry
MaxRetry == 3

\* the largest number of asset references found in the front page
MaxAssets == 6

\* the largest number of events a reporter logs in one run
MaxEvents == 2

\* the length of the deployment log loaded from a prior run
MaxSeed == 9

\* the last tick of the clock; a reporter is created at tick 0
MaxClock == 1

-----------------------------------------------------------------------------
(* Python values. *)

\* Python's None
None == "None"

\* the value of `results` before a comprehensive check has returned
NoResults == [overall_healthy |-> FALSE, ran |-> FALSE]

\* the value of `page` when the probe that ran last fetched no front page
NoPage == [fetched |-> FALSE]

\* the value of `probe` before a probe has returned
NoProbe == [test |-> None]

\* the value of `written` when the last operation wrote no report
NothingWritten == [format |-> None]

\* the value of `file` when the file does not exist
NoFile == [format |-> None]

\* the value of `summary` when the caller holds no deployment summary
NoSummary == [overall_status |-> None]

-----------------------------------------------------------------------------
(* scripts/health-check.py: main, the retry driver. *)

\* The schedules of the checker: schedule[i] is overall_healthy of the i-th
\* invocation of run_comprehensive_health_check.
Schedules == [1..MaxRetry -> BOOLEAN]

\* the number k of the first healthy invocation (MaxRetry + 1: none is)
FirstHealthy(s) ==
    IF \E i \in DOMAIN s : s[i]
    THEN CHOOSE i \in DOMAIN s : s[i] /\ \A j \in 1..(i-1) : ~s[j]
    ELSE Len(s) + 1

\* the check invocations recorded in a trace
Checks(t) == SelectSeq(t, LAMBDA e : e \in {"healthy", "unhealthy"})

\* the sleeps recorded in a trace
Sleeps(t) == SelectSeq(t, LAMBDA e : e = "sleep")

\* lines 377-389: a missing URL ends the run with status 1 before any check
HcResolveUrls ==
    /\ cli = "health-check" /\ pc = "start"
    /\ IF urls_given
       THEN pc' = "loop" /\ exit_code' = exit_code
       ELSE pc' = "exit" /\ exit_code' = 1
    /\ UNCHANGED <<checker_vars, reporter_vars,
                   cli, urls_given, retry, schedule, attempt, trace, include_crud,
                   backend_url, tests, probe, http_log, raised, fault, page, results>>

\* line 394: `for attempt in range(args.retry)` has another iteration
LoopHasNext == attempt < retry

\* a mutant of NeedsDelay: the delay precedes every attempt
NeedsDelay_EveryAttempt == attempt >= 0

\* line 395: `if attempt > 0`, the delay precedes a retry only
NeedsDelay == attempt > 0

\* line 394: the loop head; an exhausted range falls off the end of main, and
\* the interpreter exits with status 0
HcLoopHead ==
    /\ cli = "health-check" /\ pc = "loop"
    /\ IF LoopHasNext
       THEN /\ pc' = IF NeedsDelay THEN "sleep" ELSE "check"
            /\ exit_code' = exit_code
       ELSE /\ pc' = "exit"
            /\ exit_code' = 0
    /\ UNCHANGED <<checker_vars, reporter_vars,
                   cli, urls_given, retry, schedule, attempt, trace, include_crud,
                   backend_url, tests, probe, http_log, raised, fault, page, results>>

\* lines 395-398: time.sleep(args.retry_delay) before a retry
HcSleep ==
    /\ cli = "health-check" /\ pc = "sleep"
    /\ trace' = Append(trace, "sleep")
    /\ pc' = "check"
    /\ UNCHANGED <<checker_vars, reporter_vars,
                   cli, exit_code, urls_given, retry, schedule, attempt,
                   include_crud, backend_url, tests, probe, http_log, raised, fault, page, results>>

\* line 400: results = checker.run_comprehensive_health_check()
HcRunCheck ==
    /\ cli = "health-check" /\ pc = "check"
    /\ LET healthy == schedule[Len(Checks(trace)) + 1]
       IN /\ results' = [overall_healthy |-> healthy, ran |-> TRUE]
          /\ trace' = Append(trace, IF healthy THEN "healthy" ELSE "unhealthy")
    /\ pc' = "decide"
    /\ UNCHANGED <<checker_vars, reporter_vars,
                   cli, exit_code, urls_given, retry, schedule, attempt,
                   include_crud, backend_url, tests, probe, http_log, raised, fault, page>>

\* a mutant of ExitNow: the loop ends on the last attempt only
ExitNow_LastAttemptOnly == attempt = retry - 1

\* line 418: the condition under which the loop body calls sys.exit
ExitNow == results.overall_healthy \/ attempt = retry - 1

\* lines 417-419: exit if successful or on the last attempt, else iterate
HcDecide ==
    /\ cli = "health-check" /\ pc = "decide"
    /\ IF ExitNow
       THEN /\ pc' = "exit"
            /\ exit_code' = IF results.overall_healthy THEN 0 ELSE 1
            /\ attempt' = attempt
       ELSE /\ pc' = "loop"
            /\ exit_code' = exit_code
            /\ attempt' = attempt + 1
    /\ UNCHANGED <<checker_vars, reporter_vars,
                   cli, urls_given, retry, schedule, trace, include_crud,
                   backend_url, tests, probe, http_log, raised, fault, page, results>>

HcNext == HcResolveUrls \/ HcLoopHead \/ HcSleep \/ HcRunCheck \/ HcDecide

-----------------------------------------------------------------------------
(* The environment: exceptions and HTTP responses.                         *)
(*                                                                         *)
(* An exception is the set of the classes it is an instance of, so that an *)
(* `except C` clause catches it iff C is in the set.  A response is either *)
(* an exception raised by the request or a status code with a body.  JSON  *)
(* values are written as strings: "7" is the number 7 and None an absent   *)
(* key.                                                                    *)

\* requests.exceptions.ReadTimeout
Timeout == {"Timeout", "RequestException", "Exception"}

\* requests.exceptions.ConnectionError
ConnectionError == {"ConnectionError", "RequestException", "Exception"}

\* requests.exceptions.ConnectTimeout derives from ConnectionError and Timeout
ConnectTimeout == {"Timeout", "ConnectionError", "RequestException", "Exception"}

\* another requests exception, such as TooManyRedirects
OtherRequestException == {"RequestException", "Exception"}

\* any other exception: AttributeError, TypeError, ValueError, ...
OtherException == {"Exception"}

\* what a request can raise
RequestExcs == {Timeout, ConnectionError, ConnectTimeout, OtherRequestException,
                OtherException}

\* What response.json() raises on a body that is not JSON.  The class depends
\* on the installed libraries: requests >= 2.27 raises its own JSONDecodeError
\* (a RequestException), older versions raise the json library's; with
\* simplejson installed that class is not the standard library's
\* json.JSONDecodeError.
JsonExcs == {{"JSONDecodeError", "RequestException", "Exception"},
             {"JSONDecodeError", "Exception"},
             {"RequestException", "Exception"},
             {"Exception"}}

\* the status codes the services answer with
Statuses == {200, 201, 204, 404, 500}

Body(json, exc, status, database, id) ==
    [json |-> json, exc |-> exc, status |-> status, database |-> database, id |-> id]

\* the body of a response whose body no probe reads
NoBody == Body("dict", {}, None, None, None)

\* bodies that are not a JSON object: not JSON at all, a number, a list
NonObjectBodies ==
    {Body("invalid", e, None, None, None) : e \in JsonExcs}
    \cup {Body("scalar", {}, None, None, None), Body("list", {}, None, None, None)}

\* bodies of the health endpoints: `database` is absent, a string or an object
\* whose own status is `status`
HealthBodies ==
    NonObjectBodies
    \cup {Body("dict", {}, s, d, None) :
            s \in {None, "healthy", "degraded"},
            d \in {None, "connected", "disconnected", "object"}}

\* bodies of the /animes endpoints: the id of the record
AnimeBodies ==
    NonObjectBodies \cup {Body("dict", {}, None, None, i) : i \in {None, "0", "7", "8"}}

Raise(classes) == [kind |-> "raise", classes |-> classes, status |-> 0, body |-> NoBody]

Http(status, body) == [kind |-> "http", classes |-> {}, status |-> status, body |-> body]

\* the responses to a request whose body is read only under status `ok`
Responses(ok, bodies) ==
    {Raise(e) : e \in RequestExcs}
    \cup {Http(ok, b) : b \in bodies}
    \cup {Http(s, NoBody) : s \in Statuses \ {ok}}

\* the responses to a request whose body no probe reads
PlainResponses == {Raise(e) : e \in RequestExcs} \cup {Http(s, NoBody) : s \in Statuses}

\* the exception response.json() raises on the body, {} if it returns
JsonRaises(body) == IF body.json = "invalid" THEN body.exc ELSE {}

\* the AttributeError of `.get` on a parsed body that is no dict, {} if none
GetRaises(body) == IF body.json \in {"scalar", "list"} THEN OtherException ELSE {}

\* the TypeError of `key in` on a parsed body that is a number, {} if none
InRaises(body) == IF body.json = "scalar" THEN OtherException ELSE {}

\* Python's truth value of a JSON value: None and 0 are false
Truthy(v) == v \notin {None, "0"}

\* an HTTP request as the log of a probe records it; id is the record addressed
Req(method, path, id) == [method |-> method, path |-> path, id |-> id]

\* A probe ends by returning its dict or by letting an exception out.
Return(d, log) == [ret |-> d, log |-> log, exc |-> {}]

Propagate(classes, log) == [ret |-> NoProbe, log |-> log, exc |-> classes]

-----------------------------------------------------------------------------
(* scripts/verify-backend.py: the probes of BackendHealthChecker.          *)
(*                                                                         *)
(* A probe is an operator from the responses to its requests to its        *)
(* outcome.  Of a result dict the model keeps the keys the claims read;    *)
(* an error message is named by its template, status_code 0 is None.       *)

\* a mutant of BasicHandlers: the clause `except Exception` is missing
BasicHandlers_NoCatchAll(res, classes, log) ==
    IF "Timeout" \in classes
    THEN Return([res EXCEPT !.error = "Request timeout"], log)
    ELSE IF "ConnectionError" \in classes
    THEN Return([res EXCEPT !.error = "Connection error"], log)
    ELSE Propagate(classes, log)

\* lines 80-88: the except clauses of check_basic_health_endpoint
BasicHandlers(res, classes, log) ==
    IF "Timeout" \in classes
    THEN Return([res EXCEPT !.error = "Request timeout"], log)
    ELSE IF "ConnectionError" \in classes
    THEN Return([res EXCEPT !.error = "Connection error"], log)
    ELSE IF "Exception" \in classes
    THEN Return([res EXCEPT !.error = "Unexpected error"], log)
    ELSE Propagate(classes, log)

\* lines 38-90
check_basic_health_endpoint(r) ==
    LET log == <<Req("GET", "/health", None)>>
        r0 == [test |-> "basic_health_endpoint", success |-> FALSE,
               status_code |-> 0, error |-> None]
        r1 == [r0 EXCEPT !.status_code = r.status]
        r2 == [r1 EXCEPT !.success = TRUE]
    IN  IF r.kind = "raise" THEN BasicHandlers(r0, r.classes, log)
        ELSE IF r.status # 200
        THEN Return([r1 EXCEPT !.error = "HTTP status"], log)
        ELSE IF "JSONDecodeError" \in JsonRaises(r.body)
        THEN Return([r1 EXCEPT !.error = "non-JSON response"], log)
        ELSE IF JsonRaises(r.body) # {}
        THEN BasicHandlers(r1, JsonRaises(r.body), log)
        ELSE IF InRaises(r.body) # {}
        THEN BasicHandlers(r2, InRaises(r.body), log)
        ELSE Return(r2, log)

\* lines 133-138: the except clauses of check_detailed_health_endpoint
DetailedHandlers(res, classes, log) ==
    IF "RequestException" \in classes
    THEN Return([res EXCEPT !.error = "Request failed"], log)
    ELSE IF "Exception" \in classes
    THEN Return([res EXCEPT !.error = "Unexpected error"], log)
    ELSE Propagate(classes, log)

\* lines 121-124: detailed_health["database"].get("status", ...) raises an
\* AttributeError when the database entry is no object
DatabaseEntryRaises(body) ==
    IF body.json = "dict" /\ body.database \notin {None, "object"}
    THEN OtherException ELSE {}

\* lines 92-140
check_detailed_health_endpoint(r) ==
    LET log == <<Req("GET", "/health/detailed", None)>>
        r0 == [test |-> "detailed_health_endpoint", success |-> FALSE,
               status_code |-> 0, error |-> None]
        r1 == [r0 EXCEPT !.status_code = r.status]
        r2 == [r1 EXCEPT !.success = TRUE]
    IN  IF r.kind = "raise" THEN DetailedHandlers(r0, r.classes, log)
        ELSE IF r.status # 200
        THEN Return([r1 EXCEPT !.error = "HTTP status"], log)
        ELSE IF "JSONDecodeError" \in JsonRaises(r.body)
        THEN Return([r1 EXCEPT !.error = "non-JSON response"], log)
        ELSE IF JsonRaises(r.body) # {}
        THEN DetailedHandlers(r1, JsonRaises(r.body), log)
        ELSE IF InRaises(r.body) # {}
        THEN DetailedHandlers(r2, InRaises(r.body), log)
        ELSE IF DatabaseEntryRaises(r.body) # {}
        THEN DetailedHandlers(r2, DatabaseEntryRaises(r.body), log)
        ELSE Return(r2, log)

\* A block of a probe ends with the dict as it stands and the exception that
\* is leaving the block, {} if none.
Frame(res, exc, log) == [res |-> res, exc |-> exc, log |-> log]

\* lines 156-173: the attempt on the database health endpoint; its except
\* clause swallows a RequestException and lets any other exception through
DedicatedEndpoint(res, r) ==
    LET log == <<Req("GET", "/health/database", None)>>
        swallow(e) == IF "RequestException" \in e THEN {} ELSE e
    IN  IF r.kind = "raise" THEN Frame(res, swallow(r.classes), log)
        ELSE IF r.status # 200 THEN Frame(res, {}, log)
        ELSE IF JsonRaises(r.body) # {}
        THEN Frame(res, swallow(JsonRaises(r.body)), log)
        ELSE IF GetRaises(r.body) # {}
        THEN Frame(res, swallow(GetRaises(r.body)), log)
        ELSE IF r.body.status = "healthy"
        THEN Frame([res EXCEPT !.connection_verified = TRUE, !.success = TRUE],
                   {}, log)
        ELSE Frame([res EXCEPT !.error = "Database health check failed"], {}, log)

\* a mutant of BasicFallback: a status other than 200 sets no error
BasicFallback_SilentStatus(res, r) ==
    LET log == <<Req("GET", "/health", None)>>
    IN  IF r.kind = "raise" THEN Frame(res, r.classes, log)
        ELSE IF r.status # 200 THEN Frame(res, {}, log)
        ELSE IF JsonRaises(r.body) # {} THEN Frame(res, JsonRaises(r.body), log)
        ELSE IF GetRaises(r.body) # {} THEN Frame(res, GetRaises(r.body), log)
        ELSE IF r.body.database = "connected"
        THEN Frame([res EXCEPT !.connection_verified = TRUE, !.success = TRUE],
                   {}, log)
        ELSE Frame([res EXCEPT !.error = "Database not connected"], {}, log)

\* lines 175-191: the fallback to the basic health endpoint
BasicFallback(res, r) ==
    LET log == <<Req("GET", "/health", None)>>
    IN  IF r.kind = "raise" THEN Frame(res, r.classes, log)
        ELSE IF r.status # 200
        THEN Frame([res EXCEPT !.error = "Health endpoint returned status"], {}, log)
        ELSE IF JsonRaises(r.body) # {} THEN Frame(res, JsonRaises(r.body), log)
        ELSE IF GetRaises(r.body) # {} THEN Frame(res, GetRaises(r.body), log)
        ELSE IF r.body.database = "connected"
        THEN Frame([res EXCEPT !.connection_verified = TRUE, !.success = TRUE],
                   {}, log)
        ELSE Frame([res EXCEPT !.error = "Database not connected"], {}, log)

\* lines 193-195: the except clause of check_database_connectivity
DatabaseHandlers(res, classes, log) ==
    IF "Exception" \in classes
    THEN Return([res EXCEPT !.error = "Failed to check database connectivity"], log)
    ELSE Propagate(classes, log)

\* lines 142-197; r1 answers GET /health/database, r2 answers GET /health
check_database_connectivity(r1, r2) ==
    LET r0 == [test |-> "database_connectivity", success |-> FALSE,
               connection_verified |-> FALSE, error |-> None]
        f1 == DedicatedEndpoint(r0, r1)
        f2 == BasicFallback(f1.res, r2)
    IN  IF f1.exc # {} THEN DatabaseHandlers(f1.res, f1.exc, f1.log)
        ELSE IF f1.res.success THEN Return(f1.res, f1.log)
        ELSE IF f2.exc # {} THEN DatabaseHandlers(f2.res, f2.exc, f1.log \o f2.log)
        ELSE Return(f2.res, f1.log \o f2.log)

\* lines 293-298: the except clauses of _test_single_endpoint
EndpointHandlers(res, classes, log) ==
    IF "Timeout" \in classes
    THEN Return([res EXCEPT !.error = "Request timeout"], log)
    ELSE IF "RequestException" \in classes
    THEN Return([res EXCEPT !.error = "Request failed"], log)
    ELSE IF "Exception" \in classes
    THEN Return([res EXCEPT !.error = "Unexpected error"], log)
    ELSE Propagate(classes, log)

\* line 286: the endpoints on which a 404 is acceptable
OptionalEndpoints == {"/docs", "/openapi.json"}

\* lines 253-300
test_single_endpoint(path, r) ==
    LET log == <<Req("GET", path, None)>>
        r0 == [path |-> path, success |-> FALSE, status_code |-> 0, error |-> None]
        r1 == [r0 EXCEPT !.status_code = r.status]
    IN  IF r.kind = "raise" THEN EndpointHandlers(r0, r.classes, log)
        ELSE IF 200 <= r.status /\ r.status < 300
        THEN Return([r1 EXCEPT !.success = TRUE], log)
        ELSE IF r.status = 404 /\ path \in OptionalEndpoints
        THEN Return([r1 EXCEPT !.success = TRUE,
                               !.error = "Endpoint not available (optional)"], log)
        ELSE Return([r1 EXCEPT !.error = "HTTP status"], log)

\* lines 211-215
endpoints_to_test == <<"/animes", "/docs", "/openapi.json">>

\* line 234
core_endpoints == {"/animes", "/docs"}

\* lines 220-231: the loop over the endpoints, from the i-th on; rs[i] answers
\* the request to the i-th endpoint
RECURSIVE TestEndpoints(_, _, _, _)
TestEndpoints(res, log, i, rs) ==
    IF i > Len(endpoints_to_test) THEN Frame(res, {}, log)
    ELSE LET path == endpoints_to_test[i]
             o == test_single_endpoint(path, rs[i])
             working == IF o.ret.success THEN 1 ELSE 0
         IN  IF o.exc # {} THEN Frame(res, o.exc, log \o o.log)
             ELSE TestEndpoints(
                    [res EXCEPT !.endpoint_results = (path :> o.ret) @@ @,
                                !.endpoints_tested = @ + 1,
                                !.endpoints_working = @ + working],
                    log \o o.log, i + 1, rs)

\* lines 235-238: the core endpoints that work
CoreWorking(res) ==
    Cardinality({p \in core_endpoints \cap DOMAIN res.endpoint_results :
                    res.endpoint_results[p].success})

\* line 240: at least one core endpoint works
ApiSuccess(res) == CoreWorking(res) >= 1

\* lines 247-249: the except clause of check_api_endpoints
ApiHandlers(res, classes, log) ==
    IF "Exception" \in classes
    THEN Return([res EXCEPT !.error = "Failed to test API endpoints"], log)
    ELSE Propagate(classes, log)

\* lines 199-251
check_api_endpoints(rs) ==
    LET r0 == [test |-> "api_endpoints", success |-> FALSE, endpoints_tested |-> 0,
               endpoints_working |-> 0, endpoint_results |-> <<>>, error |-> None]
        f == TestEndpoints(r0, <<>>, 1, rs)
    IN  IF f.exc # {} THEN ApiHandlers(f.res, f.exc, f.log)
        ELSE IF ApiSuccess(f.res) THEN Return([f.res EXCEPT !.success = TRUE], f.log)
        ELSE Return([f.res EXCEPT !.error = "No core API endpoints are working"],
                    f.log)

\* lines 393-394, 421-422, 451-452, 475-476: the except clause of a CRUD
\* operation, `except Exception`
OperationHandlers(res, classes, log) ==
    IF "Exception" \in classes
    THEN Return([res EXCEPT !.error = "operation failed"], log)
    ELSE Propagate(classes, log)

\* lines 365-396
test_create_anime(r) ==
    LET log == <<Req("POST", "/animes", None)>>
        r0 == [operation |-> "create", success |-> FALSE, anime_id |-> None,
               status_code |-> 0, error |-> None]
        r1 == [r0 EXCEPT !.status_code = r.status]
    IN  IF r.kind = "raise" THEN OperationHandlers(r0, r.classes, log)
        ELSE IF r.status # 201
        THEN Return([r1 EXCEPT !.error = "HTTP status"], log)
        ELSE IF JsonRaises(r.body) # {}
        THEN OperationHandlers(r1, JsonRaises(r.body), log)
        ELSE IF GetRaises(r.body) # {}
        THEN OperationHandlers(r1, GetRaises(r.body), log)
        ELSE Return([r1 EXCEPT !.anime_id = r.body.id, !.success = TRUE], log)

\* lines 398-424
test_read_anime(anime_id, r) ==
    LET log == <<Req("GET", "/animes/{id}", anime_id)>>
        r0 == [operation |-> "read", success |-> FALSE, anime_id |-> anime_id,
               status_code |-> 0, error |-> None]
        r1 == [r0 EXCEPT !.status_code = r.status]
    IN  IF r.kind = "raise" THEN OperationHandlers(r0, r.classes, log)
        ELSE IF r.status # 200
        THEN Return([r1 EXCEPT !.error = "HTTP status"], log)
        ELSE IF JsonRaises(r.body) # {}
        THEN OperationHandlers(r1, JsonRaises(r.body), log)
        ELSE IF GetRaises(r.body) # {}
        THEN OperationHandlers(r1, GetRaises(r.body), log)
        ELSE IF r.body.id = anime_id
        THEN Return([r1 EXCEPT !.success = TRUE], log)
        ELSE Return([r1 EXCEPT !.error = "Returned anime ID doesn't match"], log)

\* lines 426-454 (update, PUT, expects 200) and 456-478 (delete, DELETE,
\* expects 204)
test_write_anime(operation, method, expected, anime_id, r) ==
    LET log == <<Req(method, "/animes/{id}", anime_id)>>
        r0 == [operation |-> operation, success |-> FALSE, anime_id |-> anime_id,
               status_code |-> 0, error |-> None]
        r1 == [r0 EXCEPT !.status_code = r.status]
    IN  IF r.kind = "raise" THEN OperationHandlers(r0, r.classes, log)
        ELSE IF r.status # expected
        THEN Return([r1 EXCEPT !.error = "HTTP status"], log)
        ELSE Return([r1 EXCEPT !.success = TRUE], log)

test_update_anime(anime_id, r) == test_write_anime("update", "PUT", 200, anime_id, r)

test_delete_anime(anime_id, r) == test_write_anime("delete", "DELETE", 204, anime_id, r)

\* lines 319-323 and the like: an operation's result is entered and counted
Entered(f, o) ==
    Frame([f.res EXCEPT !.operation_results = Append(@, o.ret),
                        !.operations_tested = @ + 1,
                        !.operations_working = @ + (IF o.ret.success THEN 1 ELSE 0)],
          {}, f.log \o o.log)

\* one operation of the lifecycle: an exception leaving the frame so far, or
\* the operation, passes on; else the operation's result is entered
Step(f, o) ==
    IF f.exc # {} THEN f
    ELSE IF o.exc # {} THEN Frame(f.res, o.exc, f.log \o o.log)
    ELSE Entered(f, o)

\* a mutant of HasAnimeId: the lifecycle goes on whatever create returned as id
HasAnimeId_Always(res) == TRUE

\* line 327: `if result["test_anime_id"]:` guards read, update and delete
HasAnimeId(res) == Truthy(res.test_anime_id)

\* a mutant of Lifecycle: read, update and delete run whatever create did
Lifecycle_IgnoreCreate(r0, rs) ==
    LET created == test_create_anime(rs.create)
        f1 == Step(Frame(r0, {}, <<>>), created)
        f2 == IF f1.exc = {} /\ created.ret.success
              THEN [f1 EXCEPT !.res.test_anime_id = created.ret.anime_id]
              ELSE f1
        id == f2.res.test_anime_id
        f3 == Step(f2, test_read_anime(id, rs.read))
        f4 == Step(f3, test_update_anime(id, rs.update))
    IN  Step(f4, test_delete_anime(id, rs.delete))

\* lines 317-349: create, then read, update and delete of the created record
Lifecycle(r0, rs) ==
    LET created == test_create_anime(rs.create)
        f1 == Step(Frame(r0, {}, <<>>), created)
        f2 == IF f1.exc = {} /\ created.ret.success
              THEN [f1 EXCEPT !.res.test_anime_id = created.ret.anime_id]
              ELSE f1
        id == f2.res.test_anime_id
        f3 == Step(f2, test_read_anime(id, rs.read))
        f4 == Step(f3, test_update_anime(id, rs.update))
        f5 == Step(f4, test_delete_anime(id, rs.delete))
    IN  IF f1.exc = {} /\ created.ret.success /\ HasAnimeId(f2.res) THEN f5 ELSE f2

\* line 352: the success condition of the CRUD probe
CrudSuccess(res) == res.operations_working >= 1

\* lines 359-361: the except clause of check_crud_operations
CrudHandlers(res, classes, log) ==
    IF "Exception" \in classes
    THEN Return([res EXCEPT !.error = "Failed to test CRUD operations"], log)
    ELSE Propagate(classes, log)

\* lines 302-363; rs holds the answers to the four requests
check_crud_operations(rs) ==
    LET r0 == [test |-> "crud_operations", success |-> FALSE,
               operations_tested |-> 0, operations_working |-> 0,
               operation_results |-> <<>>, test_anime_id |-> None, error |-> None]
        f == Lifecycle(r0, rs)
    IN  IF f.exc # {} THEN CrudHandlers(f.res, f.exc, f.log)
        ELSE IF CrudSuccess(f.res) THEN Return([f.res EXCEPT !.success = TRUE], f.log)
        ELSE Return([f.res EXCEPT !.error = "No CRUD operations are working"], f.log)

-----------------------------------------------------------------------------
(* scripts/verify-backend.py: run_comprehensive_backend_check and main.    *)

\* what `tests` keeps of a probe's dict: the keys the aggregation reads and,
\* of the api_endpoints probe, the status GET /animes was answered with (the
\* whole dict of the probe that ran last is in `probe`)
Summary(d) ==
    IF d.test = "api_endpoints"
    THEN [test |-> d.test, success |-> d.success,
          list_status |-> d.endpoint_results["/animes"].status_code]
    ELSE [test |-> d.test, success |-> d.success]

\* A probe of a suite has run and its outcome is at hand.  Neither the suite
\* nor main catches anything: an exception that leaves a probe ends the
\* process with a traceback and status 1, and no entry is collected.
Ran(o) ==
    /\ probe' = o.ret
    /\ http_log' = o.log
    /\ raised' = (o.exc # {})
    /\ IF o.exc # {}
       THEN pc' = "exit" /\ exit_code' = 1
       ELSE pc' = "collect" /\ exit_code' = exit_code
    /\ UNCHANGED <<checker_vars, reporter_vars,
                   cli, urls_given, retry, schedule, attempt, trace, include_crud,
                   backend_url, tests, results>>

\* line 488
BeBasicHealth ==
    /\ cli = "verify-backend" /\ pc = "start"
    /\ \E r \in Responses(200, HealthBodies) :
          Ran(check_basic_health_endpoint(r)) /\ fault' = r.classes
    /\ page' = page

\* line 489
BeDetailedHealth ==
    /\ cli = "verify-backend" /\ pc = "detailed_health_endpoint"
    /\ \E r \in Responses(200, HealthBodies) :
          Ran(check_detailed_health_endpoint(r)) /\ fault' = r.classes
    /\ page' = page

\* line 490
BeDatabaseConnectivity ==
    /\ cli = "verify-backend" /\ pc = "database_connectivity"
    /\ \E r1 \in Responses(200, HealthBodies), r2 \in Responses(200, HealthBodies) :
          Ran(check_database_connectivity(r1, r2)) /\ fault' = r1.classes
    /\ page' = page

\* line 491
BeApiEndpoints ==
    /\ cli = "verify-backend" /\ pc = "api_endpoints"
    /\ \E rs \in [1..Len(endpoints_to_test) -> PlainResponses] :
          Ran(check_api_endpoints(rs)) /\ fault' = rs[1].classes
    /\ page' = page

\* line 496
BeCrudOperations ==
    /\ cli = "verify-backend" /\ pc = "crud_operations"
    /\ \E rs \in [create : Responses(201, AnimeBodies),
                  read : Responses(200, AnimeBodies),
                  update : PlainResponses,
                  delete : PlainResponses] :
          Ran(check_crud_operations(rs)) /\ fault' = rs.create.classes
    /\ page' = page

\* a mutant of BackendFollowing: a failed probe ends the suite
BackendFollowing_StopOnFailure(test) ==
    IF ~probe.success THEN "compile"
    ELSE CASE test = "basic_health_endpoint" -> "detailed_health_endpoint"
           [] test = "detailed_health_endpoint" -> "database_connectivity"
           [] test = "database_connectivity" -> "api_endpoints"
           [] test = "api_endpoints" ->
                 IF include_crud THEN "crud_operations" ELSE "compile"
           [] OTHER -> "compile"

\* lines 487-496: what follows a probe in the list `tests` of the backend
\* suite; the CRUD probe is appended on request
BackendFollowing(test) ==
    CASE test = "basic_health_endpoint" -> "detailed_health_endpoint"
      [] test = "detailed_health_endpoint" -> "database_connectivity"
      [] test = "database_connectivity" -> "api_endpoints"
      [] test = "api_endpoints" -> IF include_crud THEN "crud_operations" ELSE "compile"
      [] OTHER -> "compile"

\* lines 487-496: the dict a probe returned becomes the next entry of `tests`,
\* and the next probe starts afresh
BeCollect ==
    /\ cli = "verify-backend" /\ pc = "collect"
    /\ tests' = Append(tests, Summary(probe))
    /\ pc' = BackendFollowing(probe.test)
    /\ probe' = NoProbe /\ http_log' = <<>> /\ page' = NoPage /\ fault' = {}
    /\ UNCHANGED <<checker_vars, reporter_vars,
                   cli, exit_code, urls_given, retry, schedule, attempt, trace,
                   include_crud, backend_url, raised, results>>

\* a mutant of critical_tests: the detailed health probe is critical too
critical_tests_WithDetailed ==
    {"basic_health_endpoint", "detailed_health_endpoint", "database_connectivity",
     "api_endpoints"}

\* line 505
critical_tests == {"basic_health_endpoint", "database_connectivity", "api_endpoints"}

\* lines 506-509
CriticalPassed(ts) ==
    Cardinality({i \in DOMAIN ts : ts[i].test \in critical_tests /\ ts[i].success})

\* line 515
BackendHealthy(ts) == CriticalPassed(ts) = Cardinality(critical_tests)

\* line 501, also verify-frontend.py line 298
SuccessfulTests(ts) == Cardinality({i \in DOMAIN ts : ts[i].success})

\* lines 498-539: the results dict
BeCompile ==
    /\ cli = "verify-backend" /\ pc = "compile"
    /\ results' = [overall_healthy |-> BackendHealthy(tests), ran |-> TRUE,
                   tests_passed |-> SuccessfulTests(tests),
                   total_tests |-> Len(tests),
                   critical_tests_passed |-> CriticalPassed(tests)]
    /\ pc' = "report"
    /\ UNCHANGED <<checker_vars, reporter_vars,
                   cli, exit_code, urls_given, retry, schedule, attempt, trace,
                   include_crud, backend_url, tests, probe, http_log, raised, fault, page>>

\* the status of sys.exit(0 if results["overall_healthy"] else 1)
ExitStatus(r) == IF r.overall_healthy THEN 0 ELSE 1

\* verify-backend.py line 599, verify-frontend.py line 382
Exit ==
    /\ cli \in {"verify-backend", "verify-frontend"} /\ pc = "report"
    /\ exit_code' = ExitStatus(results)
    /\ pc' = "exit"
    /\ UNCHANGED <<checker_vars, reporter_vars,
                   cli, urls_given, retry, schedule, attempt, trace, include_crud,
                   backend_url, tests, probe, http_log, raised, fault, results, page>>

BeNext ==
    \/ BeBasicHealth \/ BeDetailedHealth \/ BeDatabaseConnectivity
    \/ BeApiEndpoints \/ BeCrudOperations \/ BeCollect \/ BeCompile

-----------------------------------------------------------------------------
(* scripts/verify-frontend.py: the probes of FrontendHealthChecker.        *)

\* the front page: the markup the HTML probe looks for, and for each asset
\* reference of the page (duplicates removed, in the order of the list
\* assets_found) the answer a HEAD request for the asset gets
Page(html, head, body, assets) ==
    [fetched |-> TRUE, has_html_tag |-> html, has_head |-> head,
     has_body |-> body, assets |-> assets]

\* the answers to the HEAD request for an asset
AssetResponses == {Http(200, NoBody), Http(404, NoBody), Raise(ConnectionError)}

\* the sequences over S of length n
Tuples(S, n) == [1..n -> S]

\* the front pages the HTML probe is run on
MarkupPages == {Page(h, hd, b, <<>>) : h \in BOOLEAN, hd \in BOOLEAN, b \in BOOLEAN}

\* the front pages the static-asset probe is run on
AssetPages ==
    {Page(TRUE, TRUE, TRUE, a) :
        a \in UNION {Tuples(AssetResponses, n) : n \in 0..MaxAssets}}

\* lines 68-76: the except clauses of check_basic_accessibility
AccessibilityHandlers(res, classes, log) ==
    IF "Timeout" \in classes
    THEN Return([res EXCEPT !.error = "Request timeout"], log)
    ELSE IF "ConnectionError" \in classes
    THEN Return([res EXCEPT !.error = "Connection error"], log)
    ELSE IF "Exception" \in classes
    THEN Return([res EXCEPT !.error = "Unexpected error"], log)
    ELSE Propagate(classes, log)

\* lines 38-78
check_basic_accessibility(r) ==
    LET log == <<Req("GET", "/", None)>>
        r0 == [test |-> "basic_accessibility", success |-> FALSE,
               status_code |-> 0, error |-> None]
        r1 == [r0 EXCEPT !.status_code = r.status]
    IN  IF r.kind = "raise" THEN AccessibilityHandlers(r0, r.classes, log)
        ELSE IF r.status = 200 THEN Return([r1 EXCEPT !.success = TRUE], log)
        ELSE Return([r1 EXCEPT !.error = "HTTP status"], log)

\* lines 129-131: the except clause of check_html_content
HtmlHandlers(res, classes, log) ==
    IF "Exception" \in classes
    THEN Return([res EXCEPT !.error = "Failed to check HTML content"], log)
    ELSE Propagate(classes, log)

\* line 119: the markup that makes the content valid HTML
ValidHtml(res) == res.has_html_tag /\ (res.has_head \/ res.has_body)

\* lines 80-133
check_html_content(r) ==
    LET log == <<Req("GET", "/", None)>>
        r0 == [test |-> "html_content", success |-> FALSE, has_html_tag |-> FALSE,
               has_head |-> FALSE, has_body |-> FALSE, error |-> None]
        r1 == [r0 EXCEPT !.has_html_tag = r.body.has_html_tag,
                         !.has_head = r.body.has_head,
                         !.has_body = r.body.has_body]
    IN  IF r.kind = "raise" THEN HtmlHandlers(r0, r.classes, log)
        ELSE IF r.status # 200
        THEN Return([r0 EXCEPT !.error = "HTTP status: Cannot retrieve content"], log)
        ELSE IF ValidHtml(r1) THEN Return([r1 EXCEPT !.success = TRUE], log)
        ELSE Return([r1 EXCEPT !.error = "Content does not appear to be valid HTML"],
                    log)

\* line 171: the number of assets whose accessibility is tested
AssetsToTest == 5

\* lines 173-206: the loop over the assets to test, from the i-th on.  The
\* except clause of the loop body enters an asset whose request raised as
\* not accessible; an exception it does not catch leaves the loop.
RECURSIVE TestAssets(_, _, _, _)
TestAssets(res, log, i, assets) ==
    IF i > Len(assets) \/ i > AssetsToTest THEN Frame(res, {}, log)
    ELSE LET r == assets[i]
             accessible == r.kind = "http" /\ r.status = 200
             entry == [accessible |-> accessible, status_code |-> r.status]
             log1 == Append(log, Req("HEAD", "asset", None))
         IN  IF r.kind = "raise" /\ "Exception" \notin r.classes
             THEN Frame(res, r.classes, log1)
             ELSE TestAssets(
                    [res EXCEPT !.assets_tested = Append(@, entry),
                                !.accessible_assets = @ + (IF accessible THEN 1 ELSE 0)],
                    log1, i + 1, assets)

\* a mutant of AssetsSuccess: found assets are fine as soon as they are found
AssetsSuccess_Found(res) == res.total_assets > 0

\* line 209: found assets are fine when at least one tested asset is accessible
AssetsSuccess(res) == res.accessible_assets > 0

\* lines 223-225: the except clause of check_static_assets
AssetHandlers(res, classes, log) ==
    IF "Exception" \in classes
    THEN Return([res EXCEPT !.error = "Failed to check static assets"], log)
    ELSE Propagate(classes, log)

\* lines 135-227
check_static_assets(r) ==
    LET log == <<Req("GET", "/", None)>>
        r0 == [test |-> "static_assets", success |-> FALSE, assets_tested |-> <<>>,
               accessible_assets |-> 0, total_assets |-> 0, error |-> None]
        r1 == [r0 EXCEPT !.total_assets = Len(r.body.assets)]
        f == TestAssets(r1, log, 1, r.body.assets)
    IN  IF r.kind = "raise" THEN AssetHandlers(r0, r.classes, log)
        ELSE IF r.status # 200
        THEN Return([r0 EXCEPT !.error = "HTTP status: Cannot retrieve content"], log)
        ELSE IF r1.total_assets = 0 THEN Return([r1 EXCEPT !.success = TRUE], log)
        ELSE IF f.exc # {} THEN AssetHandlers(f.res, f.exc, f.log)
        ELSE IF AssetsSuccess(f.res) THEN Return([f.res EXCEPT !.success = TRUE], f.log)
        ELSE Return([f.res EXCEPT !.error = "Static assets found but none are accessible"],
                    f.log)

\* The answers to the CORS preflight request: what the probe finds under the
\* key 'access-control-allow-origin' of the headers it extracted: nothing
\* (None), "*", a value that contains the frontend origin, or another value.
PreflightResponses ==
    {Raise(e) : e \in RequestExcs}
    \cup {Http(s, [allow_origin |-> a]) :
            s \in Statuses, a \in {None, "*", "origin", "other"}}

\* line 265
CorsConfigured(allowed) == allowed = "*" \/ allowed = "origin"

\* lines 272-274: the except clause of check_backend_communication
CommunicationHandlers(res, classes, log) ==
    IF "Exception" \in classes
    THEN Return([res EXCEPT !.error = "Failed to test backend communication"], log)
    ELSE Propagate(classes, log)

\* lines 229-276; pre answers the OPTIONS request, api the GET request
check_backend_communication(pre, api) ==
    LET log1 == <<Req("OPTIONS", "/animes", None)>>
        log2 == Append(log1, Req("GET", "/animes", None))
        r0 == [test |-> "backend_communication", success |-> FALSE,
               api_accessible |-> FALSE, error |-> None]
        r1 == [r0 EXCEPT !.api_accessible = (api.status = 200)]
    IN  IF pre.kind = "raise" THEN CommunicationHandlers(r0, pre.classes, log1)
        ELSE IF api.kind = "raise" THEN CommunicationHandlers(r0, api.classes, log2)
        ELSE IF CorsConfigured(pre.body.allow_origin)
        THEN Return([r1 EXCEPT !.success = TRUE], log2)
        ELSE Return([r1 EXCEPT !.error = "CORS not configured for frontend origin"],
                    log2)

-----------------------------------------------------------------------------
(* scripts/verify-frontend.py: run_comprehensive_frontend_check and main.  *)

\* Line 278 annotates a parameter with Optional, which line 13 does not
\* import.  An interpreter that evaluates annotations when the function is
\* defined (Python before 3.14) raises NameError while the class is being
\* defined, and the script ends with status 1 before main runs; Python 3.14
\* evaluates annotations lazily and runs the script.
FeLoad ==
    /\ cli = "verify-frontend" /\ pc = "start"
    /\ \E lazy_annotations \in BOOLEAN :
          IF lazy_annotations
          THEN pc' = "basic_accessibility" /\ exit_code' = exit_code
          ELSE pc' = "exit" /\ exit_code' = 1
    /\ UNCHANGED <<checker_vars, reporter_vars,
                   cli, urls_given, retry, schedule, attempt, trace, include_crud,
                   backend_url, tests, probe, http_log, raised, fault, page, results>>

\* the front page a probe fetched
Fetched(r) == IF r.kind = "http" /\ r.status = 200 THEN r.body ELSE NoPage

\* line 286
FeBasicAccessibility ==
    /\ cli = "verify-frontend" /\ pc = "basic_accessibility"
    /\ \E r \in PlainResponses :
          Ran(check_basic_accessibility(r)) /\ fault' = r.classes
    /\ page' = page

\* line 287
FeHtmlContent ==
    /\ cli = "verify-frontend" /\ pc = "html_content"
    /\ \E r \in Responses(200, MarkupPages) :
          Ran(check_html_content(r)) /\ page' = Fetched(r) /\ fault' = r.classes

\* line 288
FeStaticAssets ==
    /\ cli = "verify-frontend" /\ pc = "static_assets"
    /\ \E r \in Responses(200, AssetPages) :
          Ran(check_static_assets(r)) /\ page' = Fetched(r) /\ fault' = r.classes

\* line 293
FeBackendCommunication ==
    /\ cli = "verify-frontend" /\ pc = "backend_communication"
    /\ \E pre \in PreflightResponses, api \in PlainResponses :
          Ran(check_backend_communication(pre, api)) /\ fault' = pre.classes
    /\ page' = page

\* lines 285-293: what follows a probe in the list `tests` of the frontend
\* suite; the backend communication probe is appended if a backend URL is given
FrontendFollowing(test) ==
    CASE test = "basic_accessibility" -> "html_content"
      [] test = "html_content" -> "static_assets"
      [] test = "static_assets" ->
            IF backend_url THEN "backend_communication" ELSE "compile"
      [] OTHER -> "compile"

\* lines 285-293: the dict a probe returned becomes the next entry of `tests`,
\* and the next probe starts afresh
FeCollect ==
    /\ cli = "verify-frontend" /\ pc = "collect"
    /\ tests' = Append(tests, Summary(probe))
    /\ pc' = FrontendFollowing(probe.test)
    /\ probe' = NoProbe /\ http_log' = <<>> /\ page' = NoPage /\ fault' = {}
    /\ UNCHANGED <<checker_vars, reporter_vars,
                   cli, exit_code, urls_given, retry, schedule, attempt, trace,
                   include_crud, backend_url, raised, results>>

\* line 305
FrontendHealthy(ts) == SuccessfulTests(ts) = Len(ts)

\* lines 295-324: the results dict
FeCompile ==
    /\ cli = "verify-frontend" /\ pc = "compile"
    /\ results' = [overall_healthy |-> FrontendHealthy(tests), ran |-> TRUE,
                   tests_passed |-> SuccessfulTests(tests),
                   total_tests |-> Len(tests)]
    /\ pc' = "report"
    /\ UNCHANGED <<checker_vars, reporter_vars,
                   cli, exit_code, urls_given, retry, schedule, attempt, trace,
                   include_crud, backend_url, tests, probe, http_log, raised, fault, page>>

FeNext ==
    \/ FeLoad \/ FeBasicAccessibility \/ FeHtmlContent \/ FeStaticAssets
    \/ FeBackendCommunication \/ FeCollect \/ FeCompile

-----------------------------------------------------------------------------
(* scripts/health-check.py: ServiceHealthChecker.                          *)
(*                                                                         *)
(* One invocation of run_comprehensive_health_check (line 400 of main).    *)
(* A service check is an operator from the responses to its requests to    *)
(* its outcome, as the probes above.                                       *)

\* dict.get(key, default): the default is for a missing key only
Get(d, key, default) == IF key \in DOMAIN d THEN d[key] ELSE default

\* what check_frontend_health looks for in the front page: 'html' or
\* 'doctype', and a reference to a stylesheet or a script
Content(html, assets) == [mentions_html |-> html, mentions_assets |-> assets]

\* the answers to the request for the front page
FrontPageResponses ==
    {Raise(e) : e \in RequestExcs}
    \cup {Http(200, Content(h, a)) : h \in BOOLEAN, a \in BOOLEAN}
    \cup {Http(s, NoBody) : s \in Statuses \ {200}}

\* lines 86-94 and 165-173: the except clauses of check_frontend_health and
\* of check_backend_health
ServiceHandlers(res, classes, log) ==
    IF "Timeout" \in classes
    THEN Return([res EXCEPT !.error = "Request timeout"], log)
    ELSE IF "ConnectionError" \in classes
    THEN Return([res EXCEPT !.error = "Connection error"], log)
    ELSE IF "Exception" \in classes
    THEN Return([res EXCEPT !.error = "Unexpected error"], log)
    ELSE Propagate(classes, log)

\* lines 34-96
check_frontend_health(r) ==
    LET log == <<Req("GET", "/", None)>>
        r0 == [service |-> "frontend", healthy |-> FALSE, status_code |-> 0,
               error |-> None,
               checks |-> [accessible |-> FALSE, serves_html |-> FALSE,
                           static_assets |-> FALSE]]
        r1 == [r0 EXCEPT !.status_code = r.status]
        r2 == [r1 EXCEPT !.checks.accessible = TRUE,
                         !.checks.serves_html = r.body.mentions_html,
                         !.checks.static_assets = r.body.mentions_assets]
    IN  IF r.kind = "raise" THEN ServiceHandlers(r0, r.classes, log)
        ELSE IF r.status # 200
        THEN Return([r1 EXCEPT !.error = "HTTP status"], log)
        ELSE IF r2.checks.accessible /\ r2.checks.serves_html
        THEN Return([r2 EXCEPT !.healthy = TRUE], log)
        ELSE Return(r2, log)

\* lines 182-202: GET /animes; the inner clause catches json.JSONDecodeError,
\* the outer one every Exception and replaces the entry
test_animes_list(r) ==
    LET e0 == [success |-> r.status = 200, status_code |-> r.status, error |-> None]
        failed == [success |-> FALSE, status_code |-> 0, error |-> "exception"]
    IN  IF r.kind = "raise" THEN failed
        ELSE IF r.status # 200 THEN e0
        ELSE IF "JSONDecodeError" \in JsonRaises(r.body)
        THEN [e0 EXCEPT !.error = "Invalid JSON response"]
        ELSE IF JsonRaises(r.body) # {} THEN failed
        ELSE e0

\* lines 205-216: GET /docs
test_documentation(r) ==
    IF r.kind = "raise"
    THEN [success |-> FALSE, status_code |-> 0, error |-> "exception"]
    ELSE [success |-> r.status = 200, status_code |-> r.status, error |-> None]

\* lines 177-218
test_backend_api_endpoints(ra, rd) ==
    [animes_list |-> test_animes_list(ra), documentation |-> test_documentation(rd)]

\* lines 147-154: the API tests run and their verdict is entered
ApiTested(f, ra, rd) ==
    LET api_tests == test_backend_api_endpoints(ra, rd)
    IN  Frame([f.res EXCEPT !.api_tests = api_tests,
                            !.checks.api_endpoints =
                                Get(Get(api_tests, "animes_list", <<>>),
                                    "success", FALSE)],
              {},
              f.log \o <<Req("GET", "/animes", None), Req("GET", "/docs", None)>>)

\* lines 119-145: the request to the health endpoint and the reading of its
\* body; the inner except clause catches json.JSONDecodeError only
HealthEndpoint(res, r) ==
    LET log == <<Req("GET", "/health", None)>>
        r1 == [res EXCEPT !.status_code = r.status]
        r2 == [r1 EXCEPT !.checks.accessible = TRUE, !.checks.health_endpoint = TRUE]
    IN  IF r.kind = "raise" THEN Frame(res, r.classes, log)
        ELSE IF r.status # 200 THEN Frame(r1, {}, log)
        ELSE IF "JSONDecodeError" \in JsonRaises(r.body) THEN Frame(r2, {}, log)
        ELSE IF JsonRaises(r.body) # {} THEN Frame(r2, JsonRaises(r.body), log)
        ELSE IF GetRaises(r.body) # {} THEN Frame(r2, GetRaises(r.body), log)
        ELSE IF r.body.database = "connected"
        THEN Frame([r2 EXCEPT !.checks.database_connected = TRUE], {}, log)
        ELSE Frame(r2, {}, log)

\* lines 157-159: the overall health assessment of the backend
BackendServiceHealthy(res) ==
    res.checks.accessible /\ res.checks.health_endpoint
    /\ res.checks.database_connected

\* lines 98-175; r answers GET /health, ra GET /animes, rd GET /docs
check_backend_health(r, ra, rd) ==
    LET r0 == [service |-> "backend", healthy |-> FALSE, status_code |-> 0,
               error |-> None,
               checks |-> [accessible |-> FALSE, health_endpoint |-> FALSE,
                           database_connected |-> FALSE, api_endpoints |-> FALSE],
               api_tests |-> <<>>]
        f1 == HealthEndpoint(r0, r)
        f2 == ApiTested(f1, ra, rd)
    IN  IF f1.exc # {} THEN ServiceHandlers(f1.res, f1.exc, f1.log)
        ELSE IF BackendServiceHealthy(f2.res)
        THEN Return([f2.res EXCEPT !.healthy = TRUE], f2.log)
        ELSE Return(f2.res, f2.log)

\* lines 238-255: the attempt on the detailed health endpoint; its except
\* clause swallows a RequestException and lets any other exception through
DetailedEndpoint(res, r) ==
    LET log == <<Req("GET", "/health/detailed", None)>>
        swallow(e) == IF "RequestException" \in e THEN {} ELSE e
        r1 == [res EXCEPT !.checks.detailed_health = TRUE]
    IN  IF r.kind = "raise" THEN Frame(res, swallow(r.classes), log)
        ELSE IF r.status # 200 THEN Frame(res, {}, log)
        ELSE IF JsonRaises(r.body) # {}
        THEN Frame(res, swallow(JsonRaises(r.body)), log)
        ELSE IF GetRaises(r.body) # {}
        THEN Frame(r1, swallow(GetRaises(r.body)), log)
        ELSE IF DatabaseEntryRaises(r.body) # {}
        THEN Frame(r1, swallow(DatabaseEntryRaises(r.body)), log)
        ELSE IF r.body.database = "object" /\ r.body.status = "healthy"
        THEN Frame([r1 EXCEPT !.checks.backend_connection = TRUE, !.healthy = TRUE],
                   {}, log)
        ELSE Frame(r1, {}, log)

\* lines 258-273: the fallback to the basic health endpoint
HealthFallback(f, r) ==
    LET log == f.log \o <<Req("GET", "/health", None)>>
    IN  IF r.kind = "raise" THEN Frame(f.res, r.classes, log)
        ELSE IF r.status # 200
        THEN Frame([f.res EXCEPT !.error = "Backend health endpoint returned status"],
                   {}, log)
        ELSE IF JsonRaises(r.body) # {} THEN Frame(f.res, JsonRaises(r.body), log)
        ELSE IF GetRaises(r.body) # {} THEN Frame(f.res, GetRaises(r.body), log)
        ELSE IF r.body.database = "connected"
        THEN Frame([f.res EXCEPT !.checks.backend_connection = TRUE,
                                 !.healthy = TRUE], {}, log)
        ELSE Frame([f.res EXCEPT !.error = "Database not connected"], {}, log)

\* lines 275-277: the except clause of check_database_health
DatabaseHealthHandlers(res, classes, log) ==
    IF "Exception" \in classes
    THEN Return([res EXCEPT !.error = "Failed to check database health"], log)
    ELSE Propagate(classes, log)

\* lines 220-279; r1 answers GET /health/detailed, r2 answers GET /health
check_database_health(r1, r2) ==
    LET r0 == [service |-> "database", healthy |-> FALSE, error |-> None,
               checks |-> [backend_connection |-> FALSE, detailed_health |-> FALSE]]
        f1 == DetailedEndpoint(r0, r1)
        f2 == IF f1.exc = {} /\ ~f1.res.checks.detailed_health
              THEN HealthFallback(f1, r2) ELSE f1
    IN  IF f2.exc # {} THEN DatabaseHealthHandlers(f2.res, f2.exc, f2.log)
        ELSE Return(f2.res, f2.log)

\* A service check of the comprehensive check has run: its dict is the next
\* service result.  Nothing in run_comprehensive_health_check or main catches
\* an exception that leaves a service check.
Checked(o, following) ==
    /\ http_log' = o.log
    /\ IF o.exc # {}
       THEN pc' = "raised" /\ services' = services
       ELSE pc' = following /\ services' = Append(services, o.ret)
    /\ UNCHANGED <<driver_vars, suite_vars, results, reporter_vars>>

\* line 288
ShFrontend ==
    /\ pc = "check_frontend_health"
    /\ \E r \in FrontPageResponses : Checked(check_frontend_health(r), "check_backend_health")

\* line 289
ShBackend ==
    /\ pc = "check_backend_health"
    /\ \E r \in Responses(200, HealthBodies), ra \in Responses(200, NonObjectBodies),
          rd \in PlainResponses :
          Checked(check_backend_health(r, ra, rd), "check_database_health")

\* line 290
ShDatabase ==
    /\ pc = "check_database_health"
    /\ \E r1 \in Responses(200, HealthBodies), r2 \in Responses(200, HealthBodies) :
          Checked(check_database_health(r1, r2), "compile")

\* a mutant of OverallHealthy: one healthy service is enough
OverallHealthy_Any(ss) == \E i \in DOMAIN ss : ss[i].healthy

\* lines 298-302
OverallHealthy(ss) == \A i \in DOMAIN ss : ss[i].healthy

\* lines 309-313
HealthyServices(ss) == Cardinality({i \in DOMAIN ss : ss[i].healthy})

\* lines 320-323: the issues, in the order of results["services"]; an entry is
\* the text "{service_name}: {error_msg}", kept here as its two parts
Issues(ss) ==
    LET issue(svc) == [service |-> svc.service,
                       error |-> Get(svc, "error", "Unknown error")]
        unhealthy == SelectSeq(ss, LAMBDA svc : ~svc.healthy)
    IN  [i \in DOMAIN unhealthy |-> issue(unhealthy[i])]

\* lines 292-333: the results dict
ShCompile ==
    /\ pc = "compile"
    /\ results' = [overall_healthy |-> OverallHealthy(services), ran |-> TRUE,
                   healthy_services |-> HealthyServices(services),
                   total_services |-> 3,
                   issues |-> Issues(services)]
    /\ pc' = "returned"
    /\ UNCHANGED <<driver_vars, suite_vars, http_log, checker_vars, reporter_vars>>

ShNext == ShFrontend \/ ShBackend \/ ShDatabase \/ ShCompile

-----------------------------------------------------------------------------
(* scripts/deployment-status.py: DeploymentStatusReporter.                 *)
(*                                                                         *)
(* One reporter instance, as main creates it (line 279) and seeds it with  *)
(* the log of a prior run (lines 282-287).  Every operation reads the      *)
(* clock, which may have advanced since the operation before.  A text the  *)
(* code formats is kept as the tuple of its parts.                         *)

\* the empty dict
EmptyDict == [key \in {} |-> None]

\* lines 36, 229: a timestamp datetime.now(timezone.utc).isoformat(), the
\* clock reading followed by the UTC offset
Timestamp(t) == [second |-> t, offset |-> "+00:00"]

\* the ticks at which an operation that starts now can read the clock
Clock == now..MaxClock

\* lines 35-41; `details or {}`: the caller's dict, EmptyDict for None
Event(t, event_type, message, status, details) ==
    [timestamp |-> Timestamp(t), event_type |-> event_type, message |-> message,
     status |-> status, details |-> details]

\* a mutant of log_event: the event is put in front of the log
log_event_Prepend(log, t, event_type, message, status, details) ==
    <<Event(t, event_type, message, status, details)>> \o log

\* lines 33-43: the log after log_event
log_event(log, t, event_type, message, status, details) ==
    Append(log, Event(t, event_type, message, status, details))

\* lines 61-70
ServiceMessage(service_name, status, url, error) ==
    IF status = "success"
    THEN <<"Service", service_name, "deployed successfully">>
         \o (IF url # None THEN <<"at", url>> ELSE <<>>)
    ELSE IF status = "failed"
    THEN <<"Service", service_name, "deployment failed">>
         \o (IF error # None THEN <<":", error>> ELSE <<>>)
    ELSE <<"Service", service_name, "deployment", status>>

\* lines 53-72: the log after log_service_deployment
log_service_deployment(log, t, service_name, status, url, error) ==
    log_event(log, t, "service_deployment",
              ServiceMessage(service_name, status, url, error), status,
              [service |-> service_name, url |-> url, error |-> error])

\* lines 82-91; a response time of 0 is false
HealthMessage(service_name, status, response_time, error) ==
    IF status = "success"
    THEN <<"Health check passed for", service_name>>
         \o (IF response_time \notin {None, "0"} THEN <<response_time, "ms">> ELSE <<>>)
    ELSE IF status = "failed"
    THEN <<"Health check failed for", service_name>>
         \o (IF error # None THEN <<":", error>> ELSE <<>>)
    ELSE <<"Health check", status, "for", service_name>>

\* lines 74-93: the log after log_health_check
log_health_check(log, t, service_name, status, response_time, error) ==
    log_event(log, t, "health_check",
              HealthMessage(service_name, status, response_time, error), status,
              [service |-> service_name, response_time |-> response_time,
               error |-> error])

\* line 101: the statuses events_by_status counts
CountedStatuses == {"success", "failed", "warning", "info"}

\* lines 101-112: the counter of each status after the loop over the log
events_by_status(log) ==
    [st \in CountedStatuses |-> Cardinality({i \in DOMAIN log : log[i].status = st})]

\* a mutant of overall_status: a warning outweighs a failure
overall_status_WarningFirst(counts) ==
    IF counts["warning"] > 0 THEN "warning"
    ELSE IF counts["failed"] > 0 THEN "failed"
    ELSE "success"

\* lines 115-119
overall_status(counts) ==
    IF counts["failed"] > 0 THEN "failed"
    ELSE IF counts["warning"] > 0 THEN "warning"
    ELSE "success"

\* lines 126-130 and 137-141: the entry of an event; `third` is url or
\* response_time
StatusEntry(event, third) ==
    [status |-> event.status,
     third |-> Get(event.details, third, None),
     error |-> Get(event.details, "error", None)]

\* a mutant of ScanEvents: the first event of a service name keeps its entry
RECURSIVE ScanEvents_FirstWins(_, _, _, _, _)
ScanEvents_FirstWins(log, i, event_type, third, acc) ==
    IF i > Len(log) THEN acc
    ELSE IF log[i].event_type = event_type
    THEN ScanEvents_FirstWins(log, i + 1, event_type, third,
                    acc @@ (Get(log[i].details, "service", "unknown")
                               :> StatusEntry(log[i], third)))
    ELSE ScanEvents_FirstWins(log, i + 1, event_type, third, acc)

\* lines 122-130 and 133-141: the loop over the log from its i-th event on;
\* the entry of an event replaces the one its service name had
RECURSIVE ScanEvents(_, _, _, _, _)
ScanEvents(log, i, event_type, third, acc) ==
    IF i > Len(log) THEN acc
    ELSE IF log[i].event_type = event_type
    THEN ScanEvents(log, i + 1, event_type, third,
                    (Get(log[i].details, "service", "unknown")
                        :> StatusEntry(log[i], third)) @@ acc)
    ELSE ScanEvents(log, i + 1, event_type, third, acc)

\* lines 95-158; t is the reading of the clock on line 97, start_time is 0
generate_deployment_summary(log, t) ==
    [deployment_info |-> [start_time |-> Timestamp(0), total_time_ms |-> t],
     overall_status |-> overall_status(events_by_status(log)),
     events_summary |-> events_by_status(log),
     services |-> ScanEvents(log, 1, "service_deployment", "url", EmptyDict),
     health_checks |-> ScanEvents(log, 1, "health_check", "response_time", EmptyDict),
     deployment_log |-> log]

\* lines 165-170, 172: status_emoji.get(status, "?")
status_emoji(status) ==
    CASE status = "success" -> "check mark"
      [] status = "failed" -> "cross mark"
      [] status = "warning" -> "warning sign"
      [] status = "info" -> "information"
      [] OTHER -> "question mark"

\* line 176: str.upper of an overall status
Upper(status) ==
    CASE status = "success" -> "SUCCESS"
      [] status = "failed" -> "FAILED"
      [] status = "warning" -> "WARNING"
      [] OTHER -> "?"

\* line 226: the number of events the report lists
RecentEvents == 10

\* a mutant of Last: the first n elements
Last_First(seq, n) == IF Len(seq) <= n THEN seq ELSE SubSeq(seq, 1, n)

\* line 226: seq[-n:], the last n elements of a list (all if it has fewer)
Last(seq, n) ==
    IF Len(seq) <= n THEN seq ELSE SubSeq(seq, Len(seq) - n + 1, Len(seq))

\* line 229: timestamp[:19], the timestamp without its UTC offset
Brief(timestamp) == timestamp.second

\* lines 229-231: the line of an event in the report
EventLine(event) ==
    [timestamp |-> Brief(event.timestamp), icon |-> status_emoji(event.status),
     event_type |-> event.event_type, message |-> event.message]

\* lines 194-204 and 209-219: the line of a service or of a health check
StatusLine(entry) ==
    [icon |-> status_emoji(entry.status), status |-> entry.status,
     third |-> entry.third, error |-> entry.error]

\* lines 160-233: the report rendered from a summary
render_markdown(s) ==
    [banner |-> <<status_emoji(s.overall_status), Upper(s.overall_status)>>,
     duration |-> s.deployment_info.total_time_ms,
     counts |-> s.events_summary,
     services |-> [n \in DOMAIN s.services |-> StatusLine(s.services[n])],
     health_section |-> DOMAIN s.health_checks # {},
     health_checks |-> [n \in DOMAIN s.health_checks |-> StatusLine(s.health_checks[n])],
     recent_section |-> s.deployment_log # <<>>,
     recent_events |->
         LET recent == Last(s.deployment_log, RecentEvents)
         IN  [i \in DOMAIN recent |-> EventLine(recent[i])]]

\* lines 160-162
generate_markdown_report(log, t) == render_markdown(generate_deployment_summary(log, t))

\* lines 235-248: what save_report writes to the file; an unsupported format
\* raises ValueError and nothing is written
save_report(log, t, format) ==
    IF format = "json"
    THEN [format |-> "json", content |-> generate_deployment_summary(log, t)]
    ELSE IF format = "markdown"
    THEN [format |-> "markdown", content |-> generate_markdown_report(log, t)]
    ELSE NothingWritten

\* the number of events logged since the reporter was created at tick 0; the
\* events of a loaded log are older
Logged(log) == Cardinality({i \in DOMAIN log : log[i].timestamp.second >= 0})

\* What an operation returned or wrote is looked at right after it: the
\* caller keeps the value the last operation returned and, of two
\* generate_deployment_summary calls in a row, the first summary as well.
RpAppended(name, log) ==
    /\ deployment_log' = log
    /\ op' = name
    /\ summary' = NoSummary /\ previous' = NoSummary
    /\ report' = None /\ written' = NothingWritten
    /\ UNCHANGED <<pc, driver_vars, suite_vars, http_log, results, checker_vars, file>>

\* lines 33-51, as main calls it on line 297 and as a caller of the class
\* may: any event type, any status, no details
RpLogEvent ==
    /\ pc = "reporter" /\ Logged(deployment_log) < MaxEvents
    /\ \E t \in Clock,
          a \in {<<"deployment", "warning">>, <<"deployment", "error">>,
                 <<"service_deployment", "info">>} :
          /\ now' = t
          /\ RpAppended("log_event",
                        log_event(deployment_log, t, a[1], <<"step">>, a[2], EmptyDict))

\* lines 53-72
RpLogService ==
    /\ pc = "reporter" /\ Logged(deployment_log) < MaxEvents
    /\ \E t \in Clock,
          a \in {<<"frontend", "success", "url", None>>,
                 <<"frontend", "failed", None, "error">>,
                 <<"backend", "in_progress", None, None>>} :
          /\ now' = t
          /\ RpAppended("log_service_deployment",
                        log_service_deployment(deployment_log, t, a[1], a[2], a[3], a[4]))

\* lines 74-93
RpLogHealth ==
    /\ pc = "reporter" /\ Logged(deployment_log) < MaxEvents
    /\ \E t \in Clock,
          a \in {<<"frontend", "success", "12", None>>,
                 <<"backend", "failed", None, "error">>} :
          /\ now' = t
          /\ RpAppended("log_health_check",
                        log_health_check(deployment_log, t, a[1], a[2], a[3], a[4]))

\* lines 95-158
RpSummary ==
    /\ pc = "reporter"
    /\ \E t \in Clock :
          /\ now' = t
          /\ summary' = generate_deployment_summary(deployment_log, t)
    /\ previous' = summary
    /\ report' = None /\ written' = NothingWritten
    /\ op' = "generate_deployment_summary"
    /\ UNCHANGED <<pc, driver_vars, suite_vars, http_log, results, checker_vars, file,
                   deployment_log>>

\* lines 160-233
RpMarkdown ==
    /\ pc = "reporter"
    /\ \E t \in Clock :
          /\ now' = t
          /\ report' = generate_markdown_report(deployment_log, t)
    /\ summary' = NoSummary /\ previous' = NoSummary /\ written' = NothingWritten
    /\ op' = "generate_markdown_report"
    /\ UNCHANGED <<pc, driver_vars, suite_vars, http_log, results, checker_vars, file,
                   deployment_log>>

\* lines 235-248; the file cannot always be written: open() may raise
RpSave ==
    /\ pc = "reporter"
    /\ \E t \in Clock, format \in {"json", "markdown", "yaml"}, writable \in BOOLEAN :
          /\ now' = t
          /\ written' = IF writable THEN save_report(deployment_log, t, format)
                        ELSE NothingWritten
    /\ summary' = NoSummary /\ previous' = NoSummary /\ report' = None
    /\ op' = "save_report"
    /\ UNCHANGED <<pc, driver_vars, suite_vars, http_log, results, checker_vars, file,
                   deployment_log>>

RpNext == RpLogEvent \/ RpLogService \/ RpLogHealth \/ RpSummary \/ RpMarkdown \/ RpSave

-----------------------------------------------------------------------------
(* The process. *)

\* no DeploymentStatusReporter exists
ReporterIdle ==
    /\ deployment_log = <<>>
    /\ now = 0
    /\ summary = NoSummary
    /\ previous = NoSummary
    /\ report = None
    /\ written = NothingWritten
    /\ file = NoFile
    /\ op = None

Init ==
    /\ cli \in {"health-check", "verify-backend", "verify-frontend"}
    /\ pc = "start"
    /\ exit_code = -1
    /\ urls_given \in (IF cli = "health-check" THEN BOOLEAN ELSE {TRUE})
    /\ retry \in (IF cli = "health-check" THEN 0..MaxRetry ELSE {1})
    /\ schedule \in (IF cli = "health-check" THEN Schedules
                     ELSE {[i \in 1..MaxRetry |-> FALSE]})
    /\ attempt = 0
    /\ trace = <<>>
    /\ include_crud \in (IF cli = "verify-backend" THEN BOOLEAN ELSE {FALSE})
    /\ backend_url \in (IF cli = "verify-frontend" THEN BOOLEAN ELSE {FALSE})
    /\ tests = <<>>
    /\ probe = NoProbe
    /\ http_log = <<>>
    /\ raised = FALSE
    /\ fault = {}
    /\ page = NoPage
    /\ results = NoResults
    /\ services = <<>>
    /\ ReporterIdle

Next == HcNext \/ BeNext \/ FeNext \/ Exit

Spec == Init /\ [][Next]_vars

\* The checker specification: one invocation of
\* ServiceHealthChecker.run_comprehensive_health_check, as main makes it on
\* line 400 of health-check.py.
ShInit ==
    /\ cli = "health-check"
    /\ pc = "check_frontend_health"
    /\ exit_code = -1
    /\ urls_given = TRUE
    /\ retry = 1
    /\ schedule = [i \in 1..MaxRetry |-> FALSE]
    /\ attempt = 0
    /\ trace = <<>>
    /\ include_crud = FALSE
    /\ backend_url = FALSE
    /\ tests = <<>>
    /\ probe = NoProbe
    /\ http_log = <<>>
    /\ raised = FALSE
    /\ fault = {}
    /\ page = NoPage
    /\ results = NoResults
    /\ services = <<>>
    /\ ReporterIdle

CheckerSpec == ShInit /\ [][ShNext]_vars

\* lines 282-287: the logs a reporter is seeded with: none, or the MaxSeed
\* events of a prior run, whose k-th event is a warning
SeedLogs ==
    {<<>>}
    \cup {[i \in 1..MaxSeed |->
              Event(-1, "deployment", <<"step">>,
                    IF i = k THEN "warning" ELSE "info", EmptyDict)] :
          k \in {0, 1}}

\* The reporter specification: one DeploymentStatusReporter, created at tick
\* 0 (lines 26-31) and seeded with a loaded log.
RpInit ==
    /\ cli = "deployment-status"
    /\ pc = "reporter"
    /\ exit_code = -1
    /\ urls_given = TRUE
    /\ retry = 1
    /\ schedule = [i \in 1..MaxRetry |-> FALSE]
    /\ attempt = 0
    /\ trace = <<>>
    /\ include_crud = FALSE
    /\ backend_url = FALSE
    /\ tests = <<>>
    /\ probe = NoProbe
    /\ http_log = <<>>
    /\ raised = FALSE
    /\ fault = {}
    /\ page = NoPage
    /\ results = NoResults
    /\ services = <<>>
    /\ deployment_log \in SeedLogs
    /\ now = 0
    /\ summary = NoSummary
    /\ previous = NoSummary
    /\ report = None
    /\ written = NothingWritten
    /\ file = NoFile
    /\ op = None

ReporterSpec == RpInit /\ [][RpNext]_vars

-----------------------------------------------------------------------------
(* scripts/deployment-status.py: main.  A pipeline calls the script once   *)
(* per step; every call is a process of its own that passes one file both  *)
(* as --load-log and as --output-file.                                     *)

\* lines 282-289: reporter.deployment_log after the load.  A file that does
\* not exist is skipped; json.load raises on a file that holds no JSON (a
\* Markdown report starts with '#'), and the except clause only warns
load_log(f) ==
    IF f.format = None THEN <<>>
    ELSE IF f.format # "json" THEN <<>>
    ELSE Get(f.content, "deployment_log", <<>>)

\* lines 95-158 for a reporter created at tick start (line 30) that reads the
\* clock at tick t
summary_since(log, start, t) ==
    [generate_deployment_summary(log, t - start)
        EXCEPT !.deployment_info.start_time = Timestamp(start)]

\* lines 235-244: the file after save_report; json.dump and the load of line
\* 285 keep the strings, numbers, nulls, lists and objects of a summary as
\* they are
file_saved(log, start, t, format) ==
    IF format = "json"
    THEN [format |-> "json", content |-> summary_since(log, start, t)]
    ELSE [format |-> "markdown",
          content |-> render_markdown(summary_since(log, start, t))]

\* lines 293-295, 300-302, 307-309: a required argument is missing and the
\* process ends with status 1 before anything is saved
DsRejected(action) ==
    /\ op' = action /\ exit_code' = 1
    /\ deployment_log' = load_log(file)
    /\ file' = file /\ now' = now
    /\ UNCHANGED <<pc, cli, urls_given, retry, schedule, attempt, trace, suite_vars,
                   http_log, results, checker_vars, summary, previous, report,
                   written>>

\* lines 328-329: the log action is done and the reporter's state is saved
DsLogged(action, log, start) ==
    /\ op' = action /\ exit_code' = 0
    /\ deployment_log' = log
    /\ \E t \in start..MaxClock :
          now' = t /\ file' = file_saved(log, start, t, "json")
    /\ UNCHANGED <<pc, cli, urls_given, retry, schedule, attempt, trace, suite_vars,
                   http_log, results, checker_vars, summary, previous, report,
                   written>>

\* lines 292-297: --action log-event; --status is one of the four choices of
\* line 261
DsLogEvent ==
    /\ pc = "shell" /\ Len(load_log(file)) < MaxEvents
    /\ \E start \in Clock, event_type \in {"deployment", None},
          status \in {"info", "failed"} :
          IF event_type = None THEN DsRejected("log-event")
          ELSE DsLogged("log-event",
                        log_event(load_log(file), start, event_type, <<"step">>,
                                  status, EmptyDict),
                        start)

\* lines 299-304: --action log-service
DsLogService ==
    /\ pc = "shell" /\ Len(load_log(file)) < MaxEvents
    /\ \E start \in Clock, service_name \in {"backend", None} :
          IF service_name = None THEN DsRejected("log-service")
          ELSE DsLogged("log-service",
                        log_service_deployment(load_log(file), start, service_name,
                                               "success", "url", None),
                        start)

\* lines 306-311: --action log-health
DsLogHealth ==
    /\ pc = "shell" /\ Len(load_log(file)) < MaxEvents
    /\ \E start \in Clock, service_name \in {"backend", None} :
          IF service_name = None THEN DsRejected("log-health")
          ELSE DsLogged("log-health",
                        log_health_check(load_log(file), start, service_name,
                                         "failed", None, "error"),
                        start)

\* lines 313-325: --action generate-report with --output-file: the report
\* replaces the file
DsGenerateReport ==
    /\ pc = "shell"
    /\ \E start \in Clock, format \in {"json", "markdown"} :
          \E t \in start..MaxClock :
             /\ now' = t
             /\ file' = file_saved(load_log(file), start, t, format)
    /\ op' = "generate-report" /\ exit_code' = 0
    /\ deployment_log' = load_log(file)
    /\ UNCHANGED <<pc, cli, urls_given, retry, schedule, attempt, trace, suite_vars,
                   http_log, results, checker_vars, summary, previous, report,
                   written>>

DsNext == DsLogEvent \/ DsLogService \/ DsLogHealth \/ DsGenerateReport

\* The command-line specification: the invocations of a pipeline, one after
\* the other, on a file that does not exist before the first.
DsInit ==
    /\ cli = "deployment-status"
    /\ pc = "shell"
    /\ exit_code = -1
    /\ urls_given = TRUE
    /\ retry = 1
    /\ schedule = [i \in 1..MaxRetry |-> FALSE]
    /\ attempt = 0
    /\ trace = <<>>
    /\ include_crud = FALSE
    /\ backend_url = FALSE
    /\ tests = <<>>
    /\ probe = NoProbe
    /\ http_log = <<>>
    /\ raised = FALSE
    /\ fault = {}
    /\ page = NoPage
    /\ results = NoResults
    /\ services = <<>>
    /\ ReporterIdle

CliSpec == DsInit /\ [][DsNext]_vars

-----------------------------------------------------------------------------
(* The retry driver of health-check.py. *)

\* the retry driver ran (both URLs were configured) and the process has ended
DriverDone == cli = "health-check" /\ pc = "exit" /\ urls_given

\* k - 1 unhealthy checks followed by a healthy one
UnhealthyThenHealthy(k) == [i \in 1..k |-> IF i < k THEN "unhealthy" ELSE "healthy"]

\* C1: when the comprehensive check is unhealthy on its first k-1 invocations
\* and healthy on the k-th, and --retry is m >= k, the driver ends after
\* exactly k check invocations and exactly k-1 sleeps, with exit status 0.
C1_RetryUntilHealthy ==
    LET k == FirstHealthy(schedule)
    IN  (DriverDone /\ k <= Len(schedule) /\ retry >= k)
        => /\ Checks(trace) = UnhealthyThenHealthy(k)
           /\ Len(Sleeps(trace)) = k - 1
           /\ exit_code = 0

\* C1, witness: the second of three allowed attempts is the first healthy one
C1_Witness ==
    /\ DriverDone /\ retry = 3 /\ FirstHealthy(schedule) = 2
    /\ trace = <<"unhealthy", "sleep", "healthy">>
    /\ exit_code = 0

\* C2: when --retry is m and the check is unhealthy on its first k-1
\* invocations with m < k, the driver ends after exactly m check invocations
\* and reports failure, exit status 1.
C2_ExhaustedReportsFailure ==
    (DriverDone /\ retry < FirstHealthy(schedule))
        => /\ Len(Checks(trace)) = retry
           /\ exit_code = 1

\* C3: a sleep happens only between two check invocations.  Nothing precedes
\* the first check, every sleep directly follows an unhealthy check and is
\* directly followed by the next check once the driver goes on, the run does
\* not end on a sleep, and a healthy check is the last event of the run.
C3_SleepOnlyBetweenChecks ==
    cli = "health-check" =>
        /\ \A i \in DOMAIN trace :
              /\ trace[i] = "sleep" => i > 1 /\ trace[i - 1] = "unhealthy"
              /\ (trace[i] = "sleep" /\ i < Len(trace)) => trace[i + 1] # "sleep"
              /\ trace[i] = "healthy" => i = Len(trace)
        /\ (pc = "exit" /\ trace # <<>>) => trace[Len(trace)] # "sleep"
        /\ (trace # <<>> /\ trace[Len(trace)] = "healthy") => pc \in {"decide", "exit"}
        /\ (trace # <<>> /\ trace[Len(trace)] = "sleep") => pc = "check"

\* C3, witness: a run that slept before each of two retries and ended unhealthy
C3_Witness ==
    /\ DriverDone
    /\ trace = <<"unhealthy", "sleep", "unhealthy", "sleep", "unhealthy">>

\* C4: a health-check CLI ends with status 0 iff the last check it performed
\* reported overall_healthy = true, and with status 1 otherwise; it never
\* ends with status 0 without a check having reported healthy.
C4_ExitCodeReflectsLastCheck ==
    pc = "exit" =>
        /\ exit_code \in {0, 1}
        /\ exit_code = 0 <=> (results.ran /\ results.overall_healthy)

-----------------------------------------------------------------------------
(* The backend suite of verify-backend.py. *)

\* the probe `test` is in `tests` with success = true
Succeeded(test) == \E i \in DOMAIN tests : tests[i].test = test /\ tests[i].success

\* the names of the entries of `tests`, in order
TestNames == [i \in DOMAIN tests |-> tests[i].test]

\* the probes of the backend suite, in order
BackendProbes ==
    <<"basic_health_endpoint", "detailed_health_endpoint", "database_connectivity",
      "api_endpoints">> \o (IF include_crud THEN <<"crud_operations">> ELSE <<>>)

\* C5: run_comprehensive_backend_check returns overall_healthy = true iff
\* basic_health_endpoint, database_connectivity and api_endpoints all succeeded,
\* whatever detailed_health_endpoint and crud_operations did.
C5_CriticalProbesDecide ==
    (cli = "verify-backend" /\ results.ran)
        => (results.overall_healthy
              <=> /\ Succeeded("basic_health_endpoint")
                  /\ Succeeded("database_connectivity")
                  /\ Succeeded("api_endpoints"))

\* C5, witness: healthy although both non-critical probes failed
C5_Witness ==
    /\ cli = "verify-backend" /\ results.ran /\ results.overall_healthy
    /\ include_crud
    /\ ~Succeeded("detailed_health_endpoint")
    /\ ~Succeeded("crud_operations")

\* C6: the backend suite runs and records every configured probe in the
\* fixed order, whatever the earlier probes did: the entries collected so far
\* are the first probes of the list, the process never ends before the suite
\* has returned, and the returned list has all 4 entries (5 with CRUD).
C6_EveryProbeRecorded ==
    cli = "verify-backend" =>
        /\ Len(tests) <= Len(BackendProbes)
        /\ TestNames = SubSeq(BackendProbes, 1, Len(tests))
        /\ pc = "exit" => results.ran
        /\ results.ran => TestNames = BackendProbes

\* C6, witness: the first probe failed and all five probes are recorded
C6_Witness ==
    /\ cli = "verify-backend" /\ results.ran /\ include_crud
    /\ Len(tests) = 5
    /\ ~tests[1].success /\ ~tests[3].success

-----------------------------------------------------------------------------
(* The probes of both checkers. *)

\* a probe has returned a dict that is not yet collected
Returned == pc = "collect" /\ probe # NoProbe

\* the results of the single endpoints or CRUD operations within the dict of
\* the probe that ran last
SubResults ==
    IF probe.test = "api_endpoints"
    THEN {probe.endpoint_results[p] : p \in DOMAIN probe.endpoint_results}
    ELSE IF probe.test = "crud_operations"
    THEN {probe.operation_results[i] : i \in DOMAIN probe.operation_results}
    ELSE {}

\* C7: every probe is total: whatever its requests are answered with or
\* raise, it returns a result dict and no exception leaves it.
C7_ProbesAreTotal ==
    /\ ~raised
    /\ (cli \in {"verify-backend", "verify-frontend"} /\ pc = "collect")
          => probe # NoProbe /\ probe.success \in BOOLEAN

\* C7, witness: a request of the static-asset probe raised, and the probe
\* returned a result
C7_Witness ==
    /\ Returned /\ probe.test = "static_assets"
    /\ probe.error = "Failed to check static assets"

\* C8: in every result a probe returns, and in every result of a single
\* endpoint or CRUD operation within it, success = false implies that error
\* is set.
C8_FailureHasError ==
    Returned =>
        /\ ~probe.success => probe.error # None
        /\ \A sub \in SubResults : ~sub.success => sub.error # None

\* C8, witness: a CRUD run whose read failed, with the error recorded
C8_Witness ==
    /\ Returned /\ probe.test = "crud_operations"
    /\ \E sub \in SubResults :
          sub.operation = "read" /\ ~sub.success /\ sub.error # None

\* C9: no probe result has success = true together with an error (but for a
\* 404 on an optional endpoint); stated here for database_connectivity, which
\* the claim names: on every path through the dedicated endpoint and the
\* fallback, a successful result carries no error.
C9_DatabaseSuccessExcludesError ==
    (Returned /\ probe.test = "database_connectivity" /\ probe.success)
        => probe.error = None

\* C10: the CRUD probe reports success only if its read step succeeded.
C10_CrudSuccessNeedsRead ==
    (Returned /\ probe.test = "crud_operations" /\ probe.success)
        => \E sub \in SubResults : sub.operation = "read" /\ sub.success

-----------------------------------------------------------------------------
(* The CRUD lifecycle of verify-backend.py. *)

\* the CRUD probe has returned; its dict is in `probe`, its requests in http_log
CrudReturned == Returned /\ probe.test = "crud_operations"

\* the entry of the create step in operation_results
CreateResult == probe.operation_results[1]

\* the HTTP methods of the requests of the probe that ran last, in order
Methods == [i \in DOMAIN http_log |-> http_log[i].method]

\* C11: when the create step of the CRUD probe fails, no read, update or
\* delete request is issued and these steps are not recorded at all:
\* operation_results holds the create entry only and operations_tested is 1.
C11_FailedCreateSkipsTheRest ==
    (CrudReturned /\ ~CreateResult.success)
        => /\ http_log = <<Req("POST", "/animes", None)>>
           /\ Len(probe.operation_results) = 1
           /\ CreateResult.operation = "create"
           /\ probe.operations_tested = 1
           /\ probe.operations_working = 0

\* C11, witness: the create request was answered with a status other than 201
C11_Witness ==
    /\ CrudReturned /\ ~CreateResult.success
    /\ CreateResult.error = "HTTP status" /\ CreateResult.status_code = 500
    /\ probe.operations_tested = 1

\* C12: the requests of the CRUD probe are issued in the order create, read,
\* update, delete; read, update and delete address the identifier create
\* returned, and none of them is issued unless create returned one.
C12_CrudRequestOrder ==
    CrudReturned =>
        /\ Methods \in {<<"POST">>, <<"POST", "GET", "PUT", "DELETE">>}
        /\ http_log[1] = Req("POST", "/animes", None)
        /\ Len(http_log) > 1
              => /\ CreateResult.success
                 /\ CreateResult.anime_id # None
                 /\ \A i \in 2..Len(http_log) :
                       /\ http_log[i].path = "/animes/{id}"
                       /\ http_log[i].id = CreateResult.anime_id

\* C12, witness: a full lifecycle on record 7 that went on after a failed read
C12_Witness ==
    /\ CrudReturned
    /\ Methods = <<"POST", "GET", "PUT", "DELETE">>
    /\ \A i \in 2..4 : http_log[i].id = "7"
    /\ ~probe.operation_results[2].success

-----------------------------------------------------------------------------
(* The multi-service aggregation of health-check.py. *)

\* the services of the results gathered so far, in order
ServiceNames == [i \in DOMAIN services |-> services[i].service]

\* the order in which run_comprehensive_health_check checks the services
ServiceOrder == <<"frontend", "backend", "database">>

\* the entries of the issues list that name the service
IssuesOf(service) ==
    {j \in DOMAIN results.issues : results.issues[j].service = service}

\* C13: run_comprehensive_health_check reports overall_healthy = true iff the
\* frontend, the backend and the database result are all healthy; the three
\* checks run in this order whatever the earlier ones found, no exception
\* ends the run, and all three results are at hand when it returns.
C13_OverallIsConjunction ==
    /\ ServiceNames = SubSeq(ServiceOrder, 1, Len(services))
    /\ pc # "raised"
    /\ results.ran =>
          /\ ServiceNames = ServiceOrder
          /\ results.overall_healthy
                <=> (services[1].healthy /\ services[2].healthy /\ services[3].healthy)

\* C13, witness: the frontend, checked first, is the only unhealthy service
C13_Witness ==
    /\ results.ran /\ ~results.overall_healthy
    /\ ServiceNames = ServiceOrder
    /\ ~services[1].healthy /\ services[2].healthy /\ services[3].healthy

\* C14: the issues list has exactly one entry for each unhealthy service and
\* none for a healthy one, and the entry of a service carries the error the
\* check of that service found.
C14_IssueCarriesTheError ==
    results.ran =>
        \A i \in DOMAIN services :
            /\ services[i].healthy => IssuesOf(services[i].service) = {}
            /\ ~services[i].healthy =>
                  /\ Cardinality(IssuesOf(services[i].service)) = 1
                  /\ \A j \in IssuesOf(services[i].service) :
                        /\ results.issues[j].error = services[i].error
                        /\ results.issues[j].error # None

-----------------------------------------------------------------------------
(* The reporter of deployment-status.py. *)

\* generate_deployment_summary has just returned `summary`
SummaryReturned == op = "generate_deployment_summary"

\* the log has an event with the status
HasStatus(status) == \E i \in DOMAIN deployment_log : deployment_log[i].status = status

\* C15: for every deployment log, the empty one included, the summary's
\* overall_status is "failed" if the log has a failed event, else "warning"
\* if it has a warning event, else "success".
C15_OverallStatus ==
    SummaryReturned =>
        summary.overall_status =
            (IF HasStatus("failed") THEN "failed"
             ELSE IF HasStatus("warning") THEN "warning"
             ELSE "success")

\* C15, witness: a warning of the prior run and a failed event of this one
C15_Witness ==
    /\ SummaryReturned
    /\ HasStatus("warning") /\ HasStatus("failed")
    /\ summary.overall_status = "failed"

\* the operations that log an event
LogOperations == {"log_event", "log_service_deployment", "log_health_check"}

\* the operations that report on the log
ReportOperations ==
    {"generate_deployment_summary", "generate_markdown_report", "save_report"}

\* C16: the deployment log of a reporter is append-only.  A call of log_event,
\* log_service_deployment or log_health_check adds exactly one event at the
\* end and leaves the earlier events and their order as they were, and
\* generate_deployment_summary, generate_markdown_report and save_report leave
\* the log as it was.
C16_LogIsAppendOnly ==
    [][/\ op' \in LogOperations =>
             /\ Len(deployment_log') = Len(deployment_log) + 1
             /\ SubSeq(deployment_log', 1, Len(deployment_log)) = deployment_log
       /\ op' \in ReportOperations => deployment_log' = deployment_log]_vars

\* C16, witness: a report written to the file after two events were logged
\* on top of a loaded log; the written summary holds the whole log
C16_Witness ==
    /\ op = "save_report" /\ written.format = "json"
    /\ Logged(deployment_log) = 2 /\ Len(deployment_log) > 2
    /\ written.content.deployment_log = deployment_log

\* the service name of an event; an event logged without one goes by "unknown"
NameOf(event) == Get(event.details, "service", "unknown")

\* the positions of the events of a type for a service name
EventsFor(event_type, name) ==
    {i \in DOMAIN deployment_log :
        /\ deployment_log[i].event_type = event_type
        /\ NameOf(deployment_log[i]) = name}

\* the most recent event of a type for a service name
MostRecent(event_type, name) ==
    deployment_log[CHOOSE i \in EventsFor(event_type, name) :
                       \A j \in EventsFor(event_type, name) : j <= i]

\* the entries of a summary section are those of the most recent events of
\* the type; `third` is the detail the section shows besides status and error
LatestPerName(entries, event_type, third) ==
    /\ DOMAIN entries =
          {NameOf(deployment_log[i]) :
              i \in {j \in DOMAIN deployment_log :
                        deployment_log[j].event_type = event_type}}
    /\ \A name \in DOMAIN entries :
          LET event == MostRecent(event_type, name)
          IN  /\ entries[name].status = event.status
              /\ entries[name].third = Get(event.details, third, None)
              /\ entries[name].error = Get(event.details, "error", None)

\* C17: for every deployment log and service name, services[name] (and
\* health_checks[name]) is the status, url (response_time) and error of the
\* most recent service_deployment (health_check) event for the name, and a
\* name has an entry iff the log has an event of that type for it.
C17_LatestStatusPerService ==
    SummaryReturned =>
        /\ LatestPerName(summary.services, "service_deployment", "url")
        /\ LatestPerName(summary.health_checks, "health_check", "response_time")

\* C17, witness: the frontend deployment failed and then succeeded, and the
\* summary shows the success with its url
C17_Witness ==
    /\ SummaryReturned
    /\ Cardinality(EventsFor("service_deployment", "frontend")) = 2
    /\ \E i \in EventsFor("service_deployment", "frontend") :
          deployment_log[i].status = "failed"
    /\ summary.services["frontend"] =
          [status |-> "success", third |-> "url", error |-> None]
    /\ DOMAIN summary.health_checks = {}

\* C18: two successive JSON reports of a reporter whose log was not modified
\* in between are equal field by field.
C18_JsonReportIsRepeatable ==
    (SummaryReturned /\ previous # NoSummary) => summary = previous

\* generate_markdown_report has just returned `report`
ReportReturned == op = "generate_markdown_report"

\* the smaller of two numbers
Smaller(a, b) == IF a <= b THEN a ELSE b

\* C19: for a log of n events the Recent Events section of the Markdown
\* report lists exactly min(n, 10) events, the last min(n, 10) events of the
\* log in log order, while the deployment_log of a summary holds all n events.
C19_ReportListsLastTen ==
    LET n == Len(deployment_log)
        k == Smaller(n, 10)
    IN  /\ ReportReturned =>
              /\ Len(report.recent_events) = k
              /\ report.recent_section <=> n > 0
              /\ \A i \in 1..k :
                    LET line == report.recent_events[i]
                        event == deployment_log[n - k + i]
                    IN  /\ line.timestamp = event.timestamp.second
                        /\ line.event_type = event.event_type
                        /\ line.message = event.message
                        /\ line.icon = status_emoji(event.status)
        /\ SummaryReturned => summary.deployment_log = deployment_log

\* C19, witness: a log of 11 events; the report lists 10 and leaves out the
\* first one, a warning
C19_Witness ==
    /\ ReportReturned
    /\ Len(deployment_log) = 11 /\ deployment_log[1].status = "warning"
    /\ Len(report.recent_events) = 10
    /\ \A i \in 1..10 : report.recent_events[i].icon # "warning sign"

-----------------------------------------------------------------------------
(* The status policy of the probes. *)

\* a status code in [200, 300)
Is2xx(status) == 200 <= status /\ status < 300

\* C20: in every HTTP probe a response status in [200, 300) passes the status
\* check: the basic-health and the basic-accessibility probe do not reject
\* it, and the per-endpoint probe succeeds on it; a 404 counts as success
\* only on /docs and /openapi.json, with a note in the error field.
C20_Any2xxPassesTheStatusCheck ==
    Returned =>
        /\ (probe.test = "basic_health_endpoint" /\ Is2xx(probe.status_code))
              => probe.error # "HTTP status"
        /\ (probe.test = "basic_accessibility" /\ Is2xx(probe.status_code))
              => probe.success
        /\ \A sub \in SubResults :
              probe.test = "api_endpoints" =>
                  /\ Is2xx(sub.status_code) => sub.success
                  /\ (sub.status_code = 404 /\ sub.success)
                        => /\ sub.path \in {"/docs", "/openapi.json"}
                           /\ sub.error = "Endpoint not available (optional)"

-----------------------------------------------------------------------------
(* Claims C21..C30.                                                        *)

\* the first request of the probe that ran last timed out (ReadTimeout)
TimedOut == "Timeout" \in fault /\ "ConnectionError" \notin fault

\* the first request of the probe that ran last could not connect
Refused == "ConnectionError" \in fault /\ "Timeout" \notin fault

\* the first request of the probe that ran last raised something that is no
\* requests exception
Unexpected == fault # {} /\ "RequestException" \notin fault

\* the error kinds by which the probes name a timeout, a connection failure
\* and an unexpected exception; the three sets are pairwise disjoint
TimeoutKinds == {"Request timeout"}
ConnectionKinds == {"Connection error", "Request failed"}
UnexpectedKinds == {"Unexpected error"}

\* C21: in every probe a timeout, a connection error and any other exception
\* of the request each yield success = false and an error kind of their own:
\* the kind reported for a timeout is never the kind reported for a
\* connection failure or for an unexpected exception.
C21_ErrorKindsAreDistinct ==
    (Returned /\ fault # {}) =>
        /\ ~probe.success
        /\ TimedOut => probe.error \in TimeoutKinds
        /\ Refused => probe.error \in ConnectionKinds
        /\ Unexpected => probe.error \in UnexpectedKinds

\* the database connectivity probe of verify-backend.py has returned
DatabaseReturned == Returned /\ probe.test = "database_connectivity"

\* the dedicated endpoint /health/database answered 200 with a status other
\* than "healthy": line 165 sets this error, and only a failing fallback
\* replaces it
DedicatedUnhealthy == probe.error = "Database health check failed"

\* C22: the database connectivity probe succeeds only when the field it
\* inspects holds the sentinel (status "healthy" on /health/database,
\* database "connected" on /health); when /health/database answers 200 with
\* another status the result is a failure, and every failure carries an error.
C22_OnlyTheSentinelSucceeds ==
    DatabaseReturned =>
        /\ probe.success => probe.connection_verified
        /\ DedicatedUnhealthy => ~probe.success
        /\ ~probe.success => probe.error # None

\* the static-asset probe has returned on a front page it fetched with 200;
\* page.assets holds the answers to HEAD for the assets found, in the order
\* of assets_found
StaticReturned == Returned /\ probe.test = "static_assets" /\ page.fetched

\* the asset answers with 200 to HEAD
Reachable(asset) == asset.kind = "http" /\ asset.status = 200

\* no asset the page references is reachable
NoneReachable == \A i \in DOMAIN page.assets : ~Reachable(page.assets[i])

\* C23: on a page fetched with 200, the static-asset probe reports success
\* with total_assets = 0 when the page references no asset, and a failure
\* with an error when it references assets none of which is reachable.
C23_NoAssetsPassUnreachableFail ==
    StaticReturned =>
        /\ Len(page.assets) = 0 => (probe.success /\ probe.total_assets = 0)
        /\ (Len(page.assets) > 0 /\ NoneReachable)
              => (~probe.success /\ probe.error # None)

\* a page with several assets, all unreachable, has been judged
C23_Witness ==
    /\ StaticReturned /\ Len(page.assets) > 1 /\ NoneReachable
    /\ ~probe.success /\ probe.total_assets = Len(page.assets)

\* C30: the static-asset probe keeps accessible_assets <= len(assets_tested)
\* <= min(5, total_assets), and on a page with assets it succeeds iff at least
\* one of the assets found is reachable, however many were found.
C30_AnyReachableAssetSucceeds ==
    StaticReturned =>
        /\ probe.accessible_assets <= Len(probe.assets_tested)
        /\ Len(probe.assets_tested) <= Smaller(AssetsToTest, probe.total_assets)
        /\ probe.total_assets > 0 => (probe.success <=> ~NoneReachable)

\* the results of check_backend_health gathered so far
BackendResults == {services[i] : i \in {j \in DOMAIN services :
                                          services[j].service = "backend"}}

\* C24: check_backend_health reports healthy = true iff the health endpoint
\* check, the database connectivity check and the api_endpoints check all
\* succeeded.
C24_BackendHealthyNeedsApi ==
    \A b \in BackendResults :
        b.healthy <=> /\ b.checks.health_endpoint
                      /\ b.checks.database_connected
                      /\ b.checks.api_endpoints

\* C25: check_backend_health always runs and records the API endpoint tests:
\* api_tests holds animes_list and documentation, also when the request to
\* /health timed out, was refused or raised.
C25_ApiTestsAlwaysRecorded ==
    \A b \in BackendResults : DOMAIN b.api_tests = {"animes_list", "documentation"}

\* C26: the CRUD probe cleans up after itself: whenever its create step
\* succeeded (201), a DELETE request is issued before the probe returns,
\* whatever read and update did and whatever id the created record carries.
C26_CreatedRecordIsDeleted ==
    (CrudReturned /\ CreateResult.success)
        => \E i \in DOMAIN http_log : http_log[i].method = "DELETE"

\* the backend suite has returned overall_healthy = true
ReportedHealthy == cli = "verify-backend" /\ results.ran /\ results.overall_healthy

\* the entries of `tests` of the api_endpoints probe
ApiEntries == {tests[i] : i \in {j \in DOMAIN tests : tests[j].test = "api_endpoints"}}

\* C27: whenever the backend suite reports overall_healthy = true, GET /animes
\* was answered 2xx in that run: the critical api_endpoints probe does not
\* pass while the list endpoint fails.
C27_HealthyNeedsTheListEndpoint ==
    ReportedHealthy => \A e \in ApiEntries : Is2xx(e.list_status)

\* the deployment log persisted in the file: the deployment_log of the JSON
\* summary it holds, nothing if it holds no summary
Persisted(f) == IF f.format = "json" THEN f.content.deployment_log ELSE <<>>

\* log p is the beginning of log q
IsPrefix(p, q) == Len(p) <= Len(q) /\ SubSeq(q, 1, Len(p)) = p

\* the actions of the command line that log an event
LogActions == {"log-event", "log-service", "log-health"}

\* C28: across the invocations of the command line on one file, passed as
\* --load-log and as --output-file, the persisted deployment log is
\* append-only: after a log-event, log-service or log-health invocation that
\* logged its event the file holds the previous log plus exactly one event,
\* and no invocation shortens the persisted log or drops an event from it.
C28_PersistedLogIsAppendOnly ==
    [][pc = "shell" =>
          /\ (op' \in LogActions /\ exit_code' = 0)
                => /\ Len(Persisted(file')) = Len(Persisted(file)) + 1
                   /\ IsPrefix(Persisted(file), Persisted(file'))
          /\ IsPrefix(Persisted(file), Persisted(file'))]_vars

\* C29: in every summary the four counters of events_summary (success,
\* failed, warning, info) add up to the number of events in the log, for
\* every log the three log operations can build.
C29_CountersCoverTheLog ==
    SummaryReturned =>
        summary.events_summary.success + summary.events_summary.failed
            + summary.events_summary.warning + summary.events_summary.info
          = Len(summary.deployment_log)

====
